---- MODULE Spec2Model ----
(***************************************************************************)
(* Model of the ScrapSnapAI server: the JSON-file entity store             *)
(* (server/database/db.js) and the request handlers that drive it          *)
(* (server/index.js).                                                      *)
(*                                                                         *)
(* Money is kept as the JavaScript Numbers the code computes with,         *)
(* timestamps in whole seconds of the clock (the code stores ISO-8601      *)
(* strings and compares them through new Date(), an order-preserving       *)
(* round trip at millisecond resolution).                                  *)
(***************************************************************************)
EXTENDS Integers, Sequences, FiniteSets, TLC

VARIABLES
    data,       \* db.js `data`: entries, items, nextEntryId, nextItemId
    disk,       \* content of data/waste.json
    now,        \* wall clock read by new Date()
    req,        \* in-flight POST /api/analyze-waste requests
    last,       \* the step taken last and what it answered
    outbox,     \* answers computed by a handler that has not sent them yet:
                \* the handler awaits the value of a db.js call and goes on
                \* in a later microtask, in the order of the awaits
    issuedE,    \* entry ids in order of assignment; 0 marks a clearAll or a
                \* restart from a file that is not the image of `data`
    issuedI,    \* item ids in order of assignment, marked likewise
    cleared,    \* TRUE from a clearAll until the next append or restart
    failures    \* number of durable writes that failed so far

vars == <<data, disk, now, req, last, outbox, issuedE, issuedI, cleared, failures>>

(***************************************************************************)
(* Bounds of the model.                                                    *)
(***************************************************************************)
MaxLogs == 2            \* logWaste calls in one behaviour
MaxClock == 1           \* clock ticks in one behaviour
MaxWriteFailures == 1   \* failed durable writes in one behaviour
MaxUnanswered == 2      \* handlers waiting to send their answer at one time

Reqs == {"r1", "r2"}
Hashes == {"h1", "h2"}
NULL == 0

(***************************************************************************)
(* JavaScript numbers.  A Number is an IEEE 754 double; the amounts of     *)
(* money the program computes with are non-negative and far from the ends  *)
(* of the range, so a Number is kept as the pair of an odd natural m and   *)
(* an exponent e that stand for m * 2^e (zero as m = 0, e = 0), and every  *)
(* operation gives the double nearest to the exact result, a tie going to  *)
(* the even mantissa.  Naturals beyond the integers of TLC are kept as     *)
(* sequences of limbs, least significant first, without a zero at the top. *)
(***************************************************************************)
LimbBits == 15
Base == 32768
MantissaBits == 53

Pow2(k) == 2 ^ k

RECURSIVE BitLenInt(_)
\* the number of binary digits of a natural
BitLenInt(x) == IF x = 0 THEN 0 ELSE 1 + BitLenInt(x \div 2)

RECURSIVE BNorm(_)
BNorm(a) ==
    IF a # <<>> /\ a[Len(a)] = 0 THEN BNorm(SubSeq(a, 1, Len(a) - 1)) ELSE a

RECURSIVE BFromInt(_)
BFromInt(n) == IF n = 0 THEN <<>> ELSE << n % Base >> \o BFromInt(n \div Base)

RECURSIVE BToInt(_)
BToInt(a) == IF a = <<>> THEN 0 ELSE a[1] + Base * BToInt(Tail(a))

RECURSIVE BAddC(_, _, _)
BAddC(a, b, c) ==
    IF a = <<>> /\ b = <<>> THEN (IF c = 0 THEN <<>> ELSE << c >>)
    ELSE LET x == (IF a = <<>> THEN 0 ELSE a[1]) + (IF b = <<>> THEN 0 ELSE b[1]) + c
         IN  << x % Base >>
               \o BAddC(IF a = <<>> THEN <<>> ELSE Tail(a),
                        IF b = <<>> THEN <<>> ELSE Tail(b), x \div Base)

BAdd(a, b) == BAddC(a, b, 0)

RECURSIVE BSubB(_, _, _)
BSubB(a, b, c) ==
    IF a = <<>> THEN <<>>
    ELSE LET x == a[1] - (IF b = <<>> THEN 0 ELSE b[1]) - c
         IN  << (x + Base) % Base >>
               \o BSubB(Tail(a), IF b = <<>> THEN <<>> ELSE Tail(b),
                        IF x < 0 THEN 1 ELSE 0)

\* a - b for a >= b
BSub(a, b) == BNorm(BSubB(a, b, 0))

RECURSIVE BCmpFrom(_, _, _)
BCmpFrom(a, b, i) ==
    IF i = 0 THEN 0
    ELSE IF a[i] # b[i] THEN (IF a[i] > b[i] THEN 1 ELSE -1)
    ELSE BCmpFrom(a, b, i - 1)

\* -1, 0 or 1 as a is below, equal to or above b
BCmp(a, b) ==
    IF Len(a) # Len(b) THEN (IF Len(a) > Len(b) THEN 1 ELSE -1)
    ELSE BCmpFrom(a, b, Len(a))

RECURSIVE BMulSmallC(_, _, _)
BMulSmallC(a, k, c) ==
    IF a = <<>> THEN (IF c = 0 THEN <<>> ELSE << c >>)
    ELSE LET x == a[1] * k + c
         IN  << x % Base >> \o BMulSmallC(Tail(a), k, x \div Base)

\* a * k for a natural k below Base
BMulSmall(a, k) == IF k = 0 THEN <<>> ELSE BMulSmallC(a, k, 0)

RECURSIVE BMul(_, _)
BMul(a, b) ==
    IF a = <<>> \/ b = <<>> THEN <<>>
    ELSE BAdd(BMulSmall(a, b[1]),
              IF Len(b) = 1 THEN <<>> ELSE << 0 >> \o BMul(a, Tail(b)))

RECURSIVE BDivSmallR(_, _)
BDivSmallR(a, d) ==
    IF a = <<>> THEN [ q |-> <<>>, r |-> 0 ]
    ELSE LET up == BDivSmallR(Tail(a), d)
             x == Base * up.r + a[1]
         IN  [ q |-> << x \div d >> \o up.q, r |-> x % d ]

\* quotient and remainder of a by a natural d below Base, d > 0
BDivSmall(a, d) ==
    LET res == BDivSmallR(a, d) IN [ q |-> BNorm(res.q), r |-> res.r ]

\* a * 2^s
BShl(a, s) ==
    IF a = <<>> THEN <<>>
    ELSE [ i \in 1..(s \div LimbBits) |-> 0 ] \o BMulSmall(a, Pow2(s % LimbBits))

\* a \div 2^s
BShr(a, s) ==
    IF s \div LimbBits >= Len(a) THEN <<>>
    ELSE BDivSmall(SubSeq(a, s \div LimbBits + 1, Len(a)), Pow2(s % LimbBits)).q

BBitLen(a) ==
    IF a = <<>> THEN 0 ELSE LimbBits * (Len(a) - 1) + BitLenInt(a[Len(a)])

RECURSIVE BTrailingZeros(_)
\* the number of zeros the binary form of a > 0 ends in
BTrailingZeros(a) ==
    IF a[1] = 0 THEN LimbBits + BTrailingZeros(Tail(a))
    ELSE IF a[1] % 2 = 1 THEN 0
    ELSE 1 + BTrailingZeros(BShr(a, 1))

RECURSIVE BDigit(_, _, _, _)
\* the largest q from acc up to acc + 2^k - 1 with q * d <= r, by halving
BDigit(r, d, acc, k) ==
    IF k = 0 THEN acc
    ELSE IF BCmp(BMulSmall(d, acc + Pow2(k - 1)), r) <= 0
         THEN BDigit(r, d, acc + Pow2(k - 1), k - 1)
         ELSE BDigit(r, d, acc, k - 1)

RECURSIVE BDivLimbs(_, _)
\* long division, one limb of the quotient after the other
BDivLimbs(a, d) ==
    IF a = <<>> THEN [ q |-> <<>>, r |-> <<>> ]
    ELSE LET up == BDivLimbs(Tail(a), d)
             r2 == BNorm(<< a[1] >> \o up.r)
             dg == BDigit(r2, d, 0, LimbBits)
         IN  [ q |-> << dg >> \o up.q, r |-> BSub(r2, BMulSmall(d, dg)) ]

\* quotient and remainder of a by d > 0
BDivMod(a, d) ==
    IF Len(d) = 1
    THEN LET res == BDivSmall(a, d[1])
         IN  [ q |-> res.q, r |-> BFromInt(res.r) ]
    ELSE LET res == BDivLimbs(a, d) IN [ q |-> BNorm(res.q), r |-> res.r ]

ZeroNum == [ m |-> <<>>, e |-> 0 ]

\* the Number n * 2^e for a natural n of at most 53 binary digits
Canon(n, e) ==
    IF n = <<>> THEN ZeroNum
    ELSE LET z == BTrailingZeros(n) IN [ m |-> BShr(n, z), e |-> e + z ]

\* the double nearest to x * 2^e, where x is n when exact and lies strictly
\* between n and n + 1 otherwise (n then has more than 53 binary digits)
RoundToDouble(n, e, exact) ==
    IF BBitLen(n) <= MantissaBits THEN Canon(n, e)
    ELSE LET s == BBitLen(n) - MantissaBits
             kept == BShr(n, s)
             low == BSub(n, BShl(kept, s))
             c == BCmp(low, BShl(<< 1 >>, s - 1))
             up == c > 0 \/ (c = 0 /\ (~exact \/ kept[1] % 2 = 1))
         IN  Canon(IF up THEN BAdd(kept, << 1 >>) ELSE kept, e + s)

\* a natural (below 2^31) as a Number
FromInt(k) == Canon(BFromInt(k), 0)

Min(x, y) == IF x <= y THEN x ELSE y

\* a + b
NumAdd(a, b) ==
    LET e == Min(a.e, b.e)
    IN  RoundToDouble(BAdd(BShl(a.m, a.e - e), BShl(b.m, b.e - e)), e, TRUE)

\* -1, 0 or 1 as a is below, equal to or above b
NumCmp(a, b) ==
    LET e == Min(a.e, b.e)
    IN  BCmp(BShl(a.m, a.e - e), BShl(b.m, b.e - e))

\* a - b for a >= b
NumSub(a, b) ==
    LET e == Min(a.e, b.e)
    IN  RoundToDouble(BSub(BShl(a.m, a.e - e), BShl(b.m, b.e - e)), e, TRUE)

\* a * b
NumMul(a, b) == RoundToDouble(BMul(a.m, b.m), a.e + b.e, TRUE)

\* a / b for b > 0
NumDiv(a, b) ==
    IF a.m = <<>> THEN ZeroNum
    ELSE LET k == IF BBitLen(b.m) + MantissaBits + 2 > BBitLen(a.m)
                  THEN BBitLen(b.m) + MantissaBits + 2 - BBitLen(a.m) ELSE 0
             res == BDivMod(BShl(a.m, k), b.m)
         IN  RoundToDouble(res.q, a.e - b.e - k, res.r = <<>>)

\* the natural nearest to a * k, a half going up, for a natural k below Base:
\* Math.round(a) for k = 1, the digits of a.toFixed(0) and a.toFixed(2) for
\* k = 1 and k = 100
RoundedTimes(a, k) ==
    LET n == BMulSmall(a.m, k)
    IN  IF a.e >= 0 THEN BToInt(BShl(n, a.e))
        ELSE BToInt(BShr(BAdd(BShr(n, 0 - a.e - 1), << 1 >>), 1))

\* the Number a decimal literal of c hundredths is read as (JSON.parse)
FromCents(c) == NumDiv(FromInt(c), FromInt(100))

\* the hundredths a Number shows when printed with two decimals: toFixed(2)
Cents(x) == RoundedTimes(x, 100)

(***************************************************************************)
(* What the vision collaborator may return: the item list of the analysis  *)
(* (name, category, condition, estimatedValue).  The prices are the        *)
(* Numbers that the decimal literals of the JSON answer are read as; v is  *)
(* the price in hundredths.                                                *)
(***************************************************************************)
\* the category the vision call gives to the foods in use
CategoryOf(n) == IF n = "bread" \/ n = "rice" THEN "grain" ELSE "fruit"

\* the condition the vision call sees the foods in use in, in the spelling
\* of its answer
ConditionOf(n) ==
    CASE n = "bread" -> "spoiled"
      [] n = "Apple" -> "Spoiled"
      [] OTHER       -> "partially eaten"

VItem(n, v) ==
    [ name |-> n, category |-> CategoryOf(n), condition |-> ConditionOf(n),
      estimatedValue |-> FromCents(v) ]

VisionResults ==
    { <<>>,
      << VItem("apple", 120) >>,
      << VItem("Apple", 200), VItem("bread", 33) >>,
      << VItem("bread", 0) >> }

\* String.prototype.toLowerCase on the names and conditions in use
ToLowerCase(s) ==
    CASE s = "Apple"   -> "apple"
      [] s = "Spoiled" -> "spoiled"
      [] OTHER         -> s

(***************************************************************************)
(* db.js                                                                   *)
(***************************************************************************)
EmptyData == [entries |-> <<>>, items |-> <<>>, nextEntryId |-> 1, nextItemId |-> 1]

RECURSIVE SumEstimatedValue_skipHead(_)
\* variant: the reduction misses the first item
SumEstimatedValue_skipHead(items) ==
    IF Len(items) <= 1 THEN ZeroNum
    ELSE NumAdd(SumEstimatedValue_skipHead(SubSeq(items, 1, Len(items) - 1)),
                items[Len(items)].estimatedValue)

RECURSIVE SumEstimatedValue(_)
\* items.reduce((sum, item) => sum + (item.estimatedValue || 0), 0)
SumEstimatedValue(items) ==
    IF items = <<>> THEN ZeroNum
    ELSE NumAdd(SumEstimatedValue(SubSeq(items, 1, Len(items) - 1)),
                items[Len(items)].estimatedValue)

\* const entryId = data.nextEntryId++
AllocEntryId_fromLength(d) == Len(d.entries) + 1
AllocEntryId(d) == d.nextEntryId

\* variant: the counter is read once for all the items of a call
AllocItemId_readOnce(d, k) == d.nextItemId

\* const itemId = data.nextItemId++   (for the k-th item of the call, k = 1..)
AllocItemId(d, k) == d.nextItemId + k - 1

\* logWaste: the new in-memory data, the entry and the saved items
LogWaste(d, w) ==
    LET totalValue == SumEstimatedValue(w.items)
        entryId == AllocEntryId(d)
        entry == [ id |-> entryId,
                   timestamp |-> w.timestamp,
                   total_estimated_value |-> totalValue,
                   image_hash |-> w.imageHash,
                   duplicate_of_entry_id |-> w.duplicateOfEntryId,
                   consistency_note |-> w.consistencyNote ]
        savedItems == [ k \in 1..Len(w.items) |->
                          [ id |-> AllocItemId(d, k),
                            waste_entry_id |-> entryId,
                            name |-> w.items[k].name,
                            category |-> w.items[k].category,
                            condition |-> w.items[k].condition,
                            estimated_value |-> w.items[k].estimatedValue ] ]
    IN  [ data |-> [ entries |-> Append(d.entries, entry),
                     items |-> d.items \o savedItems,
                     nextEntryId |-> entryId + 1,
                     nextItemId |-> d.nextItemId + Len(w.items) ],
          id |-> entryId,
          totalEstimatedValue |-> totalValue,
          itemIds |-> [ k \in 1..Len(savedItems) |-> savedItems[k].id ] ]

RECURSIVE InsertByTimestampDesc(_, _)
\* place e behind every element that does not compare after it
InsertByTimestampDesc(sorted, e) ==
    IF sorted = <<>> THEN << e >>
    ELSE IF Head(sorted).timestamp >= e.timestamp
         THEN << Head(sorted) >> \o InsertByTimestampDesc(Tail(sorted), e)
         ELSE << e >> \o sorted

RECURSIVE SortByTimestampDesc(_)
\* Array.prototype.sort((a, b) => new Date(b.timestamp) - new Date(a.timestamp)),
\* a stable sort: equal timestamps keep their array order
SortByTimestampDesc(s) ==
    IF s = <<>> THEN <<>>
    ELSE InsertByTimestampDesc(SortByTimestampDesc(SubSeq(s, 1, Len(s) - 1)), s[Len(s)])

\* data.items.filter(item => item.waste_entry_id === entry.id).map(...)
ItemsOfEntry(d, id) ==
    LET own == SelectSeq(d.items, LAMBDA it : it.waste_entry_id = id)
    IN  [ k \in 1..Len(own) |->
            [ id |-> own[k].id, name |-> own[k].name,
              category |-> own[k].category,
              condition |-> own[k].condition,
              estimatedValue |-> own[k].estimated_value ] ]

\* findEntryByImageHash: <<>> for null, else << entry joined with its items >>
FindEntryByImageHash(d, imageHash) ==
    IF imageHash = "" THEN <<>>
    ELSE LET entries == SortByTimestampDesc(
                            SelectSeq(d.entries, LAMBDA e : e.image_hash = imageHash))
         IN  IF Len(entries) = 0 THEN <<>>
             ELSE << [ entry |-> entries[1], items |-> ItemsOfEntry(d, entries[1].id) ] >>

\* Number(entryId) on the request parameters in use; NaN is no integer
DeleteArgs == {"1", "2", "3", "02", "abc"}

NumberOf(s) ==
    CASE s = "1"  -> [nan |-> FALSE, val |-> 1]
      [] s = "2"  -> [nan |-> FALSE, val |-> 2]
      [] s = "02" -> [nan |-> FALSE, val |-> 2]
      [] s = "3"  -> [nan |-> FALSE, val |-> 3]
      [] OTHER    -> [nan |-> TRUE, val |-> 0]

\* e.id === id with id = Number(...): NaN equals nothing
StrictEq(x, n) == ~n.nan /\ x = n.val

\* data.entries.findIndex(e => e.id === id); 0 stands for -1
FindIndexById(entries, n) ==
    IF \E i \in 1..Len(entries) : StrictEq(entries[i].id, n)
    THEN CHOOSE i \in 1..Len(entries) :
            /\ StrictEq(entries[i].id, n)
            /\ \A j \in 1..(i - 1) : ~StrictEq(entries[j].id, n)
    ELSE 0

\* data.items.filter(item => item.waste_entry_id !== id)
RemoveItemsOf_byItemId(items, n) == SelectSeq(items, LAMBDA it : ~StrictEq(it.id, n))
RemoveItemsOf_keepAll(items, n) == items
RemoveItemsOf(items, n) == SelectSeq(items, LAMBDA it : ~StrictEq(it.waste_entry_id, n))

\* data.entries.splice(index, 1)
Splice1(s, index) == SubSeq(s, 1, index - 1) \o SubSeq(s, index + 1, Len(s))

\* deleteEntryById without its saveData(): the new data and the success flag
DeleteEntryById(d, entryId) ==
    LET id == NumberOf(entryId)
        index == FindIndexById(d.entries, id)
    IN  IF index = 0
        THEN [ data |-> d, success |-> FALSE ]
        ELSE [ data |-> [ d EXCEPT !.items = RemoveItemsOf(d.items, id),
                                   !.entries = Splice1(d.entries, index) ],
               success |-> TRUE ]

\* clearAllWasteData: the value assigned to data
ClearAllWasteData_keepCounters(d) == [ d EXCEPT !.entries = <<>>, !.items = <<>> ]
ClearAllWasteData(d) ==
    [ entries |-> <<>>, items |-> <<>>, nextEntryId |-> 1, nextItemId |-> 1 ]

RECURSIVE MaxId(_)
\* Math.max(0, ...xs.map(x => x.id))
MaxId(xs) ==
    IF xs = <<>> THEN 0
    ELSE LET m == MaxId(Tail(xs)) IN IF Head(xs).id > m THEN Head(xs).id ELSE m

(***************************************************************************)
(* The file data/waste.json: ok is FALSE when the file does not parse.     *)
(* A file that does not exist loads like the image of the empty store.     *)
(***************************************************************************)
CorruptFile == [ ok |-> FALSE, img |-> EmptyData ]

\* initDatabase up to its saveData(): the data loaded from the file; a
\* counter that is missing (0) is recomputed from the ids present
LoadDatabase_recount(f) ==
    IF f.ok
    THEN [ f.img EXCEPT !.nextEntryId = MaxId(f.img.entries) + 1,
                        !.nextItemId = MaxId(f.img.items) + 1 ]
    ELSE EmptyData

\* variant: a missing counter is set to the number of rows plus one
LoadDatabase_countRows(f) ==
    IF f.ok
    THEN [ f.img EXCEPT
             !.nextEntryId = IF @ = 0 THEN Len(f.img.entries) + 1 ELSE @,
             !.nextItemId = IF @ = 0 THEN Len(f.img.items) + 1 ELSE @ ]
    ELSE EmptyData

LoadDatabase(f) ==
    IF f.ok
    THEN [ f.img EXCEPT
             !.nextEntryId = IF @ = 0 THEN MaxId(f.img.entries) + 1 ELSE @,
             !.nextItemId = IF @ = 0 THEN MaxId(f.img.items) + 1 ELSE @ ]
    ELSE EmptyData

\* saveData: writeFileSync either replaces the file, or throws before the
\* file is touched, or throws after truncating it; the error is only logged
WriteOutcomes == {"ok", "fail", "partial"}

SaveData(d, f, outcome) ==
    CASE outcome = "ok"      -> [ ok |-> TRUE, img |-> d ]
      [] outcome = "fail"    -> f
      [] outcome = "partial" -> CorruptFile

(***************************************************************************)
(* index.js: POST /api/analyze-waste                                       *)
(***************************************************************************)
\* x > 0 on Numbers
Positive(x) == x.m # <<>>

\* variant: the total cut down to the dime below
RoundToDime_truncate(currentTotal) ==
    LET tenfold == NumMul(currentTotal, FromInt(10))
        r == RoundedTimes(tenfold, 1)
    IN  NumDiv(FromInt(IF NumCmp(FromInt(r), tenfold) > 0 THEN r - 1 ELSE r),
               FromInt(10))

\* Math.round(currentTotal * 10) / 10: the product is rounded to a double
\* before Math.round sees it, and so is the quotient
RoundToDime(currentTotal) ==
    NumDiv(FromInt(RoundedTimes(NumMul(currentTotal, FromInt(10)), 1)), FromInt(10))

\* prevByName.get(key): Map keeps the last value set for a key;
\* 0 when the key is absent
PrevIndexByName(prevItems, key) ==
    LET hits == { j \in 1..Len(prevItems) : ToLowerCase(prevItems[j].name) = key }
    IN  IF hits = {} THEN 0 ELSE CHOOSE j \in hits : \A i \in hits : i <= j

\* variant: the names are looked up as they are written
AlignItems_exactCase(prevItems, items) ==
    [ k \in 1..Len(items) |->
        LET j == PrevIndexByName(prevItems, items[k].name)
        IN  IF j = 0 THEN items[k]
            ELSE [ items[k] EXCEPT !.estimatedValue = prevItems[j].estimatedValue ] ]

\* analysis.items.map(it => ({...it, estimatedValue: prev?.estimatedValue ?? it.estimatedValue}))
AlignItems(prevItems, items) ==
    [ k \in 1..Len(items) |->
        LET j == PrevIndexByName(prevItems, ToLowerCase(items[k].name))
        IN  IF j = 0 THEN items[k]
            ELSE [ items[k] EXCEPT !.estimatedValue = prevItems[j].estimatedValue ] ]

\* `Values aligned with duplicate of entry #${previous.id} for consistency.`
\* is kept as << previous.id >>, the empty string as << >>
ConsistencyNoteFor(id) == << id >>

\* variant: an earlier total of zero is reused like any other
Reconcile_zeroReused(previous, freshItems) ==
    IF previous # <<>>
    THEN LET prev == previous[1]
             items == IF Len(prev.items) > 0 THEN AlignItems(prev.items, freshItems)
                      ELSE freshItems
             previousTotal == prev.entry.total_estimated_value
         IN  [ items |-> items,
               totalEstimatedValue |-> previousTotal,
               duplicateOfEntryId |-> prev.entry.id,
               consistencyNote |-> ConsistencyNoteFor(prev.entry.id) ]
    ELSE [ items |-> freshItems,
           totalEstimatedValue |-> RoundToDime(SumEstimatedValue(freshItems)),
           duplicateOfEntryId |-> NULL,
           consistencyNote |-> <<>> ]

\* lines 82-114: the analysis as adjusted, and what is handed to logWaste
Reconcile(previous, freshItems) ==
    IF previous # <<>>
    THEN LET prev == previous[1]
             items == IF Len(prev.items) > 0 THEN AlignItems(prev.items, freshItems)
                      ELSE freshItems
             currentTotal == SumEstimatedValue(items)
             previousTotal == prev.entry.total_estimated_value
         IN  [ items |-> items,
               totalEstimatedValue |-> IF Positive(previousTotal) THEN previousTotal
                                       ELSE RoundToDime(currentTotal),
               duplicateOfEntryId |-> prev.entry.id,
               consistencyNote |-> IF Positive(previousTotal)
                                   THEN ConsistencyNoteFor(prev.entry.id) ELSE <<>> ]
    ELSE [ items |-> freshItems,
           totalEstimatedValue |-> RoundToDime(SumEstimatedValue(freshItems)),
           duplicateOfEntryId |-> NULL,
           consistencyNote |-> <<>> ]

(***************************************************************************)
(* Failures of the vision collaborator.  An error message is kept as the   *)
(* set of the substrings it contains among those the code searches for.    *)
(* The message of a failed readFileSync holds the path of the upload,      *)
(* whose file name multer makes of Date.now(), a random number and the     *)
(* name the caller gave: it may hold the digits 429, 403 or 400.           *)
(***************************************************************************)
VisionFailures ==
    { "MissingCredential", "QuotaExceeded", "RateLimited", "AccessDenied",
      "InvalidInput", "UpstreamUnavailable", "MalformedResponse",
      "ImageMissing", "ImageMissingPath429", "ImageMissingPath403",
      "ImageMissingPath400" }

\* the message of the error raised inside analyzeFoodWaste's try block
RaisedMessage(kind) ==
    CASE kind = "MissingCredential"   -> {"API_KEY", "GEMINI_API_KEY is not set"}
      [] kind = "QuotaExceeded"       -> {"429", "quota"}
      [] kind = "RateLimited"         -> {"429"}
      [] kind = "AccessDenied"        -> {"403", "PERMISSION_DENIED"}
      [] kind = "InvalidInput"        -> {"400", "INVALID_ARGUMENT"}
      [] kind = "UpstreamUnavailable" -> {}
      [] kind = "MalformedResponse"   -> {}
      [] kind = "ImageMissing"        -> {"ENOENT"}
      [] kind = "ImageMissingPath429" -> {"ENOENT", "429"}
      [] kind = "ImageMissingPath403" -> {"ENOENT", "403"}
      [] kind = "ImageMissingPath400" -> {"ENOENT", "400"}

\* variant: the message for a forbidden access does not speak of the API key
RethrownMessage_plainForbidden(m) ==
    IF "API_KEY" \in m THEN {"API key", "API_KEY"}
    ELSE IF "quota" \in m \/ "429" \in m THEN {"quota"}
    ELSE IF "403" \in m \/ "PERMISSION_DENIED" \in m THEN {}
    ELSE IF "400" \in m \/ "INVALID_ARGUMENT" \in m THEN {}
    ELSE IF "ENOENT" \in m THEN {"file not found"}
    ELSE m

\* analyzeFoodWaste's catch block: the message of the error it throws
RethrownMessage(m) ==
    IF "API_KEY" \in m THEN {"API key", "API_KEY"}
    ELSE IF "quota" \in m \/ "429" \in m THEN {"quota"}
    ELSE IF "403" \in m \/ "PERMISSION_DENIED" \in m THEN {"API key"}
    ELSE IF "400" \in m \/ "INVALID_ARGUMENT" \in m THEN {}
    ELSE IF "ENOENT" \in m THEN {"file not found"}
    ELSE IF "GEMINI_API_KEY is not set" \in m THEN m
    ELSE m

\* variant: statusCode starts out as 200
StatusCodeFor_startsOk(m) ==
    IF "quota" \in m \/ "429" \in m \/ "rate limit" \in m THEN 429
    ELSE IF "API key" \in m \/ "API_KEY" \in m \/ "401" \in m \/ "403" \in m
            \/ "PERMISSION_DENIED" \in m THEN 401
    ELSE IF "file not found" \in m \/ "ENOENT" \in m THEN 404
    ELSE IF "400" \in m \/ "INVALID_ARGUMENT" \in m THEN 400
    ELSE 200

\* the handler's catch block: the status code for an error message
StatusCodeFor(m) ==
    IF "quota" \in m \/ "429" \in m \/ "rate limit" \in m THEN 429
    ELSE IF "API key" \in m \/ "API_KEY" \in m \/ "401" \in m \/ "403" \in m
            \/ "PERMISSION_DENIED" \in m THEN 401
    ELSE IF "file not found" \in m \/ "ENOENT" \in m THEN 404
    ELSE IF "400" \in m \/ "INVALID_ARGUMENT" \in m THEN 400
    ELSE 500

(***************************************************************************)
(* The state machine                                                       *)
(***************************************************************************)
IdleReq == [ pc |-> "idle", hash |-> "", previous |-> <<>> ]

\* what an answered request or a start of the process leaves in `last`
Answer(op) ==
    [ op |-> op, status |-> 0, entryId |-> 0, entryTotal |-> ZeroNum,
      analysisTotal |-> ZeroNum, itemIds |-> <<>>, prev |-> <<>>, write |-> "none",
      query |-> <<>>, body |-> <<>> ]

\* ids handed out by logWaste so far in this behaviour
LogsDone == Cardinality({ i \in 1..Len(issuedE) : issuedE[i] # 0 })
InFlight == Cardinality({ r \in Reqs : req[r].pc # "idle" })

\* a reset of the counters is marked once in the id histories
MarkReset(h) == IF h # <<>> /\ h[Len(h)] # 0 THEN Append(h, 0) ELSE h

WriteAllowed(outcome) == outcome = "ok" \/ failures < MaxWriteFailures
CountWrite(outcome) == IF outcome = "ok" THEN failures ELSE failures + 1

\* a handler that awaits the value of a db.js call has its answer ready and
\* sends it in a later microtask
RoomToAwait == Len(outbox) < MaxUnanswered
Await(answer) == outbox' = Append(outbox, answer)

\* the answer made ready by this step
Readied == outbox'[Len(outbox')]
Readies(op) == Len(outbox') = Len(outbox) + 1 /\ Readied.op = op

\* the first start, without data/ and without the file: initDatabase starts
\* mkdir and does not wait for it, so its saveData() meets the directory or
\* fails with ENOENT, which is logged; the file is then still missing.  When
\* writeFileSync has made the file and then throws (EFBIG, ENOSPC), the file
\* is left without its text, the error is logged and the server goes on
FirstWrites == {"ok", "fail", "partial"}

Init ==
    \E outcome \in FirstWrites :
        /\ data = EmptyData
        /\ disk = SaveData(EmptyData, [ ok |-> TRUE, img |-> EmptyData ], outcome)
        /\ now = 0
        /\ req = [ r \in Reqs |-> IdleReq ]
        /\ last = [ Answer("init") EXCEPT !.write = outcome ]
        /\ outbox = <<>>
        /\ issuedE = <<>>
        /\ issuedI = <<>>
        /\ cleared = FALSE
        /\ failures = IF outcome = "ok" THEN 0 ELSE 1

\* a waiting handler goes on: res.json(...) of the answer it had ready
Respond ==
    /\ outbox # <<>>
    /\ last' = Head(outbox)
    /\ outbox' = Tail(outbox)
    /\ UNCHANGED <<data, disk, now, req, issuedE, issuedI, cleared, failures>>

\* new Date() moves on
Tick ==
    /\ now < MaxClock
    /\ now' = now + 1
    /\ UNCHANGED <<data, disk, req, last, outbox, issuedE, issuedI, cleared, failures>>

\* POST /api/analyze-waste without a file: lines 69-71
AnalyzeNoFile ==
    /\ last' = [ Answer("nofile") EXCEPT !.status = 400 ]
    /\ UNCHANGED <<data, disk, now, req, outbox, issuedE, issuedI, cleared, failures>>

\* POST /api/analyze-waste, line 75: the upload cannot be read; readFile
\* rejects and its message m goes to the handler's catch block as it is.
\* The message names the failure (ENOENT for a missing file; EISDIR, EMFILE
\* and others hold none of the substrings searched for) and, for most
\* failures, the path of the upload with the digits of its file name
AnalyzeUnreadable(m) ==
    /\ last' = [ Answer("unreadable") EXCEPT !.status = StatusCodeFor(m) ]
    /\ UNCHANGED <<data, disk, now, req, outbox, issuedE, issuedI, cleared, failures>>

\* POST /api/analyze-waste, lines 73-80: hash the upload, look the hash up,
\* start the vision call and wait for it
AnalyzeLookup(r, h) ==
    /\ req[r].pc = "idle"
    /\ LogsDone + InFlight < MaxLogs
    /\ req' = [ req EXCEPT ![r] = [ pc |-> "analyzing", hash |-> h,
                                     previous |-> FindEntryByImageHash(data, h) ] ]
    /\ UNCHANGED <<data, disk, now, last, outbox, issuedE, issuedI, cleared, failures>>

\* lines 80-126: the vision call returned `fresh`; reconcile, logWaste with
\* its saveData(); the handler awaits the value of logWaste, so its answer
\* (lines 128-132) is sent by a later Respond
AnalyzeComplete(r, fresh, outcome) ==
    /\ req[r].pc = "analyzing"
    /\ WriteAllowed(outcome)
    /\ RoomToAwait
    /\ \E rec \in { Reconcile(req[r].previous, fresh) } :
       \E res \in { LogWaste(data, [ items |-> rec.items,
                                   timestamp |-> now,
                                   imageHash |-> req[r].hash,
                                   duplicateOfEntryId |-> rec.duplicateOfEntryId,
                                   consistencyNote |-> rec.consistencyNote ]) } :
           /\ data' = res.data
           /\ disk' = SaveData(res.data, disk, outcome)
           /\ issuedE' = Append(issuedE, res.id)
           /\ issuedI' = issuedI \o res.itemIds
           /\ Await([ Answer("log") EXCEPT
                         !.status = 200,
                         !.entryId = res.id,
                         !.entryTotal = res.totalEstimatedValue,
                         !.analysisTotal = rec.totalEstimatedValue,
                         !.itemIds = res.itemIds,
                         !.prev = req[r].previous,
                         !.write = outcome ])
    /\ req' = [ req EXCEPT ![r] = IdleReq ]
    /\ cleared' = FALSE
    /\ failures' = CountWrite(outcome)
    /\ UNCHANGED <<now, last>>

\* lines 133-152: the vision call failed; the catch block answers at once
AnalyzeFail(r, kind) ==
    /\ req[r].pc = "analyzing"
    /\ req' = [ req EXCEPT ![r] = IdleReq ]
    /\ last' = [ Answer("fail") EXCEPT
                   !.status = StatusCodeFor(RethrownMessage(RaisedMessage(kind))) ]
    /\ UNCHANGED <<data, disk, now, outbox, issuedE, issuedI, cleared, failures>>

\* DELETE /api/waste-history/:id: deleteEntryById is not awaited, the
\* handler answers in the step that deletes
DeleteEntry(entryId, outcome) ==
    \E res \in { DeleteEntryById(data, entryId) } :
        /\ res.success => WriteAllowed(outcome)
        /\ ~res.success => outcome = "ok"
        /\ data' = res.data
        /\ disk' = IF res.success THEN SaveData(res.data, disk, outcome) ELSE disk
        /\ failures' = IF res.success THEN CountWrite(outcome) ELSE failures
        /\ last' = [ Answer("delete") EXCEPT
                       !.status = IF res.success THEN 200 ELSE 404,
                       !.write = IF res.success THEN outcome ELSE "none" ]
        /\ UNCHANGED <<now, req, outbox, issuedE, issuedI, cleared>>

\* DELETE /api/waste-history: clearAllWasteData is not awaited either
ClearAll(outcome) ==
    /\ WriteAllowed(outcome)
    /\ data' = ClearAllWasteData(data)
    /\ disk' = SaveData(ClearAllWasteData(data), disk, outcome)
    /\ failures' = CountWrite(outcome)
    /\ issuedE' = MarkReset(issuedE)
    /\ issuedI' = MarkReset(issuedI)
    /\ cleared' = TRUE
    /\ last' = [ Answer("clear") EXCEPT !.status = 200, !.write = outcome ]
    /\ UNCHANGED <<now, req, outbox>>

\* the process stops and starts again: requests in flight and answers not
\* yet sent are gone, and initDatabase loads the file, then saves what it
\* loaded
Restart(outcome) ==
    /\ WriteAllowed(outcome)
    /\ data' = LoadDatabase(disk)
    /\ disk' = SaveData(LoadDatabase(disk), disk, outcome)
    /\ failures' = CountWrite(outcome)
    /\ req' = [ r \in Reqs |-> IdleReq ]
    /\ outbox' = <<>>
    /\ issuedE' = IF disk = [ ok |-> TRUE, img |-> data ]
                  THEN issuedE ELSE MarkReset(issuedE)
    /\ issuedI' = IF disk = [ ok |-> TRUE, img |-> data ]
                  THEN issuedI ELSE MarkReset(issuedI)
    /\ cleared' = FALSE
    /\ last' = [ Answer("restart") EXCEPT !.write = outcome ]
    /\ UNCHANGED now

Next ==
    \/ Tick
    \/ Respond
    \/ AnalyzeNoFile
    \/ \E failure \in { {}, {"ENOENT"} }, digits \in { {}, {"429"}, {"403"}, {"400"} } :
          AnalyzeUnreadable(failure \cup digits)
    \/ \E r \in Reqs, h \in Hashes : AnalyzeLookup(r, h)
    \/ \E r \in Reqs, fresh \in VisionResults, o \in WriteOutcomes :
          AnalyzeComplete(r, fresh, o)
    \/ \E r \in Reqs, kind \in VisionFailures : AnalyzeFail(r, kind)
    \/ \E id \in DeleteArgs, o \in WriteOutcomes : DeleteEntry(id, o)
    \/ \E o \in WriteOutcomes : ClearAll(o)
    \/ \E o \in WriteOutcomes : Restart(o)

Spec == Init /\ [][Next]_vars

\* no handler is waiting to send its answer
Quiet == outbox = <<>>

\* The store driven by one request at a time, each answered before the next
\* arrives: every operation of db.js, with writes that fail, writes of an
\* upload that are cut short, and restarts
NextStore ==
    \/ Respond
    \/ Quiet /\ \E h \in Hashes : AnalyzeLookup("r1", h)
    \/ Quiet /\ \E fresh \in VisionResults, o \in WriteOutcomes :
                   AnalyzeComplete("r1", fresh, o)
    \/ Quiet /\ \E id \in DeleteArgs, o \in {"ok", "fail"} : DeleteEntry(id, o)
    \/ Quiet /\ \E o \in {"ok", "fail"} : ClearAll(o)
    \/ Quiet /\ Restart("ok")

SpecStore == Init /\ [][NextStore]_vars

\* append and deleteById alone, uploads overlapping, with writes that fail;
\* an upload is answered before the store is changed again
NextAppendDelete ==
    \/ Respond
    \/ \E r \in Reqs, h \in Hashes : AnalyzeLookup(r, h)
    \/ Quiet /\ \E r \in Reqs, fresh \in VisionResults, o \in {"ok", "fail"} :
                   AnalyzeComplete(r, fresh, o)
    \/ Quiet /\ \E id \in DeleteArgs, o \in {"ok", "fail"} : DeleteEntry(id, o)

SpecAppendDelete == Init /\ [][NextAppendDelete]_vars

(***************************************************************************)
(* Properties                                                              *)
(***************************************************************************)
EntryIds == { data.entries[i].id : i \in 1..Len(data.entries) }
ItemIds == { data.items[i].id : i \in 1..Len(data.items) }

\* the entry appended last
NewestEntry == data.entries[Len(data.entries)]

\* h is strictly increasing between two marks
IncreasingBetweenResets(h) ==
    \A i, j \in 1..Len(h) :
        (i < j /\ \A k \in i..j : h[k] # 0) => h[i] < h[j]

\* C1: over every sequence of logWaste and deleteEntryById calls, entry ids
\* are assigned in strictly increasing order, item ids likewise, each from its
\* own counter, and no id is assigned twice, also after deletions.
C1_IdsStrictlyIncreasing ==
    /\ \A i, j \in 1..Len(issuedE) : i < j => issuedE[i] < issuedE[j]
    /\ \A i, j \in 1..Len(issuedI) : i < j => issuedI[i] < issuedI[j]
    /\ \A i \in 1..Len(issuedE) : issuedE[i] < data.nextEntryId
    /\ \A i \in 1..Len(issuedI) : issuedI[i] < data.nextItemId

\* an append that followed the deletion of an entry with items, the item ids
\* running ahead of the entry ids
C1_Witness ==
    /\ last.op = "log"
    /\ last.itemIds # <<>>
    /\ \E i \in 1..Len(issuedE) : issuedE[i] \notin EntryIds
    /\ \E i \in 1..Len(issuedI) : issuedI[i] \notin ItemIds
    /\ last.itemIds[1] > last.entryId

\* C2: an upload whose hash matched a prior entry of total T > 0 is stored
\* with total exactly T, and its consistency note names the prior entry.
C2_PriorTotalPersisted ==
    [][ (Readies("log") /\ Readied.prev # <<>>
            /\ Positive(Readied.prev[1].entry.total_estimated_value))
        => /\ NewestEntry'.id = Readied.entryId
           /\ NewestEntry'.total_estimated_value
                 = Readied.prev[1].entry.total_estimated_value
           /\ NewestEntry'.consistency_note
                 = ConsistencyNoteFor(Readied.prev[1].entry.id) ]_vars

\* C3: the same image uploaded twice gives two entries of distinct ids and
\* the same total, the second with a non-empty consistency note, whatever the
\* vision collaborator returned for either upload.
C3_SameImageTwice ==
    [][ (Readies("log") /\ Readied.prev # <<>>
            /\ \E i \in 1..Len(data'.entries) :
                   data'.entries[i] = Readied.prev[1].entry)
        => /\ Readied.entryId # Readied.prev[1].entry.id
           /\ Readied.entryTotal = Readied.prev[1].entry.total_estimated_value
           /\ NewestEntry'.consistency_note # <<>> ]_vars

\* C4: the total stored with the entry, and returned as
\* wasteEntry.totalEstimatedValue, is the reconciled total returned as
\* analysis.totalEstimatedValue.
C4_StoredTotalIsReconciledTotal ==
    [][ Readies("log")
        => /\ Readied.entryTotal = Readied.analysisTotal
           /\ NewestEntry'.total_estimated_value = Readied.analysisTotal ]_vars

\* C5: an append whose durable write fails answers with an error and leaves
\* the in-memory data at the last durably written state.
C5_FailedAppendNotApplied ==
    [][ (Readies("log") /\ Readied.write = "fail")
        => /\ Readied.status # 200
           /\ disk'.ok /\ data' = disk'.img ]_vars

\* C6: findEntryByImageHash returns, among the entries of that hash, the one
\* of the latest timestamp, the highest id among several of that timestamp,
\* and nothing for a hash no entry has or for the empty hash.
C6_MostRecentHighestId ==
    \A h \in Hashes \cup {""} :
        LET M == { data.entries[i] : i \in { k \in 1..Len(data.entries) :
                                               data.entries[k].image_hash = h } }
            found == FindEntryByImageHash(data, h)
        IN  IF h = "" \/ M = {}
            THEN found = <<>>
            ELSE /\ found # <<>>
                 /\ found[1].entry \in M
                 /\ \A f \in M :
                       \/ f.timestamp < found[1].entry.timestamp
                       \/ /\ f.timestamp = found[1].entry.timestamp
                          /\ f.id <= found[1].entry.id

\* C7: deleteEntryById removes the entry of that id and the items owned by
\* it and nothing else, the counters staying; with no entry of that id, a
\* non-numeric id included, it answers not found and changes nothing.
C7_DeleteFrame ==
    [][ (last'.op = "delete" /\ req' = req) =>
        \A id \in DeleteArgs, o \in WriteOutcomes :
          DeleteEntry(id, o) =>
            LET n == NumberOf(id)
                known == ~n.nan /\ n.val \in EntryIds
            IN  IF known
                THEN /\ last'.status = 200
                     /\ data'.entries = SelectSeq(data.entries, LAMBDA e : e.id # n.val)
                     /\ Len(data'.entries) = Len(data.entries) - 1
                     /\ data'.items =
                          SelectSeq(data.items, LAMBDA it : it.waste_entry_id # n.val)
                     /\ data'.nextEntryId = data.nextEntryId
                     /\ data'.nextItemId = data.nextItemId
                ELSE /\ last'.status = 404
                     /\ data' = data
                     /\ disk' = disk ]_vars

\* a deletion that took an entry and its items and left another entry with
\* its items behind
C7_Witness ==
    /\ last.op = "delete"
    /\ last.status = 200
    /\ data.entries # <<>>
    /\ data.items # <<>>
    /\ \E i \in 1..Len(issuedI) : issuedI[i] # 0 /\ issuedI[i] \notin ItemIds

\* C8: every stored item is owned by a stored entry.
C8_ItemsHaveOwner ==
    \A i \in 1..Len(data.items) : data.items[i].waste_entry_id \in EntryIds

\* items are still stored after a deletion took an entry away
C8_Witness ==
    /\ last.op = "delete"
    /\ last.status = 200
    /\ data.items # <<>>
    /\ Len(data.entries) < Len(issuedE)

\* C9 as stated: no entry id is assigned twice in the life of the store,
\* across clearAll and restarts.
C9_EntryIdNeverReused ==
    \A i, j \in 1..Len(issuedE) :
        (i < j /\ issuedE[i] # 0) => issuedE[i] # issuedE[j]

\* C9 as amended: entry ids are assigned in increasing order, none twice,
\* across append, deleteEntryById and a restart that reloads the image of the
\* data in memory; the count starts again only at a clearAll or at a restart
\* from a file that is not that image.
C9_NoReuseBetweenResets ==
    /\ IncreasingBetweenResets(issuedE)
    /\ \A i \in 1..Len(issuedE) :
          (\A k \in i..Len(issuedE) : issuedE[k] # 0) => issuedE[i] < data.nextEntryId

\* a restart that reloaded the image in memory after the entries made so far
\* were deleted: the counter alone remembers their ids
C9_Witness ==
    /\ last.op = "restart"
    /\ issuedE # <<>>
    /\ issuedE[Len(issuedE)] # 0
    /\ data.entries = <<>>
    /\ data.nextEntryId = issuedE[Len(issuedE)] + 1

\* C10: clearAllWasteData leaves no entry, no item and both counters at 1,
\* whatever came before, so the next append makes entry 1 and item 1.
C10_ClearAllResets ==
    [][ /\ cleared' =>
            /\ data'.entries = <<>> /\ data'.items = <<>>
            /\ data'.nextEntryId = 1 /\ data'.nextItemId = 1
        /\ (cleared /\ ~cleared' /\ Readies("log")) =>
            /\ Readied.entryId = 1
            /\ data'.entries[1].id = 1
            /\ Readied.itemIds # <<>> =>
                  (Readied.itemIds[1] = 1 /\ data'.items[1].id = 1) ]_vars

\* an append with items right after a clearAll that followed earlier appends,
\* no write having failed
C10_Witness ==
    /\ last.op = "log"
    /\ failures = 0
    /\ Len(issuedE) >= 3
    /\ issuedE[Len(issuedE) - 1] = 0
    /\ \E k \in 1..Len(issuedI) : issuedI[k] = 0
    /\ last.entryId = 1
    /\ last.itemIds # <<>>
    /\ last.itemIds[1] = 1

(***************************************************************************)
(* Uploads one after the other whose item values do not sum to a whole     *)
(* dime, every durable write succeeding.  0.01 + 2.34 is 2.3499999999999996*)
(* in doubles, half way between two dimes in decimals.                     *)
(***************************************************************************)
PricedResults ==
    { <<>>,
      << VItem("apple", 703) >>,
      << VItem("apple", 706) >>,
      << VItem("Apple", 400), VItem("bread", 305) >>,
      << VItem("bread", 4), VItem("rice", 95) >>,
      << VItem("bread", 1), VItem("rice", 234) >>,
      << VItem("rice", 1) >>,
      << VItem("bread", 0) >> }

NextTotals ==
    \/ Respond
    \/ Quiet /\ \E h \in Hashes : AnalyzeLookup("r1", h)
    \/ Quiet /\ \E fresh \in PricedResults : AnalyzeComplete("r1", fresh, "ok")

SpecTotals == Init /\ [][NextTotals]_vars

RECURSIVE SumCents(_)
\* the decimal sum, in hundredths, of the values of vision items
SumCents(items) ==
    IF items = <<>> THEN 0
    ELSE Cents(Head(items).estimatedValue) + SumCents(Tail(items))

\* the multiples of ten cents around s that are nearest to s
NearestDimes(s) ==
    { m \in 0..(s + 10) :
         /\ m % 10 = 0
         /\ \A k \in 0..(s + 10) :
               k % 10 = 0 =>
                  (IF m >= s THEN m - s ELSE s - m)
                     <= (IF k >= s THEN k - s ELSE s - k) }

\* C11: when the lookup found no earlier entry of the image, the total the
\* reconciliation resolves is the sum of the fresh item values rounded to the
\* nearest ten cents, and the items stored are the fresh items, unchanged and
\* in their order.
C11_NoPriorRoundedSum ==
    [][ \A fresh \in PricedResults :
          (AnalyzeComplete("r1", fresh, "ok") /\ req["r1"].previous = <<>>) =>
             /\ \E dime \in NearestDimes(SumCents(fresh)) :
                   Readied.analysisTotal = FromCents(dime)
             /\ LET stored == ItemsOfEntry(data', Readied.entryId)
                IN  /\ Len(stored) = Len(fresh)
                    /\ \A k \in 1..Len(fresh) :
                          /\ stored[k].name = fresh[k].name
                          /\ stored[k].estimatedValue = fresh[k].estimatedValue
       ]_vars

\* a first upload whose one item is worth 7.06 was answered with 7.10
C11_Witness ==
    /\ last.op = "log"
    /\ last.prev = <<>>
    /\ last.entryTotal = FromCents(706)
    /\ last.analysisTotal = FromCents(710)
    /\ Len(ItemsOfEntry(data, last.entryId)) = 1

\* a first upload of items worth 0.01 and 2.34 was answered with 2.30
C11_WitnessHalfWay ==
    /\ last.op = "log"
    /\ last.prev = <<>>
    /\ Cents(last.entryTotal) = 235
    /\ last.entryTotal # FromCents(235)
    /\ last.analysisTotal = FromCents(230)

RECURSIVE SumStoredValue(_)
\* the sum of estimated_value over stored item rows
SumStoredValue(rows) ==
    IF rows = <<>> THEN ZeroNum
    ELSE NumAdd(SumStoredValue(SubSeq(rows, 1, Len(rows) - 1)),
                rows[Len(rows)].estimated_value)

\* the stored item rows that belong to entry id
RowsOfEntry(d, id) == SelectSeq(d.items, LAMBDA it : it.waste_entry_id = id)

\* C12: in every reachable state, a stored entry whose total differs from the
\* sum of the values of its items carries a non-empty consistency note: the
\* total is the item sum unless the reconciliation overrode it.
C12_TotalIsItemSumOrNoted ==
    \A k \in 1..Len(data.entries) :
       LET e == data.entries[k]
       IN  e.total_estimated_value # SumStoredValue(RowsOfEntry(data, e.id))
              => e.consistency_note # <<>>

\* the store holds an entry made with items from a reconciled second upload
\* of an image, next to the entry it was reconciled with
C12_Witness ==
    \E k \in 1..Len(data.entries) :
       /\ data.entries[k].consistency_note # <<>>
       /\ Positive(data.entries[k].total_estimated_value)
       /\ Len(RowsOfEntry(data, data.entries[k].id)) = 2
       /\ \E j \in 1..Len(data.entries) :
             data.entries[j].id = data.entries[k].duplicate_of_entry_id

(***************************************************************************)
(* Overlapping uploads, deletions and clearAll, every durable write        *)
(* succeeding.  Each store function runs synchronously to its end (db.js   *)
(* has no await), so other handlers see the store only between calls.      *)
(***************************************************************************)
NextOverlap ==
    \/ Respond
    \/ \E r \in Reqs, h \in Hashes : AnalyzeLookup(r, h)
    \/ \E r \in Reqs, fresh \in VisionResults : AnalyzeComplete(r, fresh, "ok")
    \/ Quiet /\ \E id \in DeleteArgs : DeleteEntry(id, "ok")
    \/ Quiet /\ ClearAll("ok")

SpecOverlap == Init /\ [][NextOverlap]_vars

\* C13: whatever uploads are in progress and whatever was deleted meanwhile,
\* the store a read meets is whole: every entry has all its items (its total
\* is their sum), every item has its entry, ids are not shared, and both
\* counters are above every stored id.
C13_ReadsSeeWholeMutations ==
    /\ \A k \in 1..Len(data.entries) :
          /\ data.entries[k].total_estimated_value
                = SumStoredValue(RowsOfEntry(data, data.entries[k].id))
          /\ data.entries[k].id < data.nextEntryId
          /\ \A j \in 1..Len(data.entries) :
                data.entries[j].id = data.entries[k].id => j = k
    /\ \A k \in 1..Len(data.items) :
          /\ \E j \in 1..Len(data.entries) :
                data.entries[j].id = data.items[k].waste_entry_id
          /\ data.items[k].id < data.nextItemId
          /\ \A j \in 1..Len(data.items) :
                data.items[j].id = data.items[k].id => j = k

\* an upload is still waiting for the vision call when another one, begun
\* meanwhile, has stored an entry with two items
C13_Witness ==
    /\ \E r \in Reqs : req[r].pc = "analyzing"
    /\ last.op = "log"
    /\ \E k \in 1..Len(data.entries) :
          Len(RowsOfEntry(data, data.entries[k].id)) = 2

\* C14: the lookup of the earlier entry of the image comes after the vision
\* call has returned: the earlier entry an upload is reconciled with is the
\* one findEntryByImageHash gives on the store as it is when the call returns.
C14_LookupAfterVisionCall ==
    [][ \A r \in Reqs, fresh \in VisionResults :
          AnalyzeComplete(r, fresh, "ok") =>
             req[r].previous = FindEntryByImageHash(data, req[r].hash) ]_vars

\* C15: whenever a store mutation is cut short, the file data/waste.json
\* still holds a complete image: a step that changes the file leaves a file
\* that parses.
C15_FileNeverHalfWritten == [][disk' # disk => disk'.ok]_vars

(***************************************************************************)
(* Overlapping uploads whose vision call may fail or stay unanswered,      *)
(* every durable write succeeding.                                         *)
(***************************************************************************)
NextIngest ==
    \/ Respond
    \/ \E r \in Reqs, h \in Hashes : AnalyzeLookup(r, h)
    \/ \E r \in Reqs, fresh \in VisionResults : AnalyzeComplete(r, fresh, "ok")
    \/ \E r \in Reqs, kind \in VisionFailures : AnalyzeFail(r, kind)

SpecIngest == Init /\ [][NextIngest]_vars

\* C16: an upload whose vision call fails is answered with an error status
\* and leaves the store, the file and both counters as they were; an upload
\* whose vision call has not returned holds no id: the counters stand one
\* above the ids handed to the uploads that were stored, and the file, once
\* it was written whole, holds the store.
C16_FailedCallPersistsNothing ==
    [][ /\ (last'.op = "fail" /\ req' # req) =>
              \A r \in Reqs, kind \in VisionFailures :
                 AnalyzeFail(r, kind) =>
                    /\ data' = data
                    /\ disk' = disk
                    /\ last'.status >= 400
        /\ data'.nextEntryId = Len(issuedE') + 1
        /\ data'.nextItemId = Len(issuedI') + 1
        /\ Len(data'.entries) = Len(issuedE')
        /\ Len(data'.items) = Len(issuedI')
        /\ disk'.ok => disk' = [ ok |-> TRUE, img |-> data' ] ]_vars

\* the vision call of one upload failed after another upload had been stored
\* with items, and a further upload is still waiting for its call
C16_Witness ==
    /\ last.op = "fail"
    /\ last.status = 500
    /\ Len(issuedE) = 1
    /\ Len(issuedI) >= 1
    /\ \E r \in Reqs : req[r].pc = "analyzing"

\* the vision call of an upload could not read the image file, and the upload
\* was answered 404 with nothing stored
C16_WitnessImageMissing ==
    /\ last.op = "fail"
    /\ last.status = 404
    /\ data = EmptyData

\* the three groups of vision failures the caller has to tell apart
FailureGroups ==
    { {"QuotaExceeded", "RateLimited"},
      {"MissingCredential", "AccessDenied"},
      {"UpstreamUnavailable"} }

\* C17: an upload that fails for a quota or rate limit, for a credential or
\* for an unavailable upstream is answered with a status that no failure of
\* another of these three groups is answered with.
C17_FailureGroupsDistinct ==
    [][ (last'.op = "fail" /\ req' # req) =>
          \A g \in FailureGroups, r \in Reqs, kind \in VisionFailures :
             (kind \in g /\ AnalyzeFail(r, kind)) =>
                \A other \in FailureGroups \ {g} : \A k \in other :
                   last'.status # StatusCodeFor(RethrownMessage(RaisedMessage(k)))
      ]_vars

\* an upload failed for a credential and was answered 401 while another
\* upload was waiting for its vision call
C17_Witness ==
    /\ last.op = "fail"
    /\ last.status = 401
    /\ \E r \in Reqs : req[r].pc = "analyzing"

(***************************************************************************)
(* Reading the store.  A clock tick is the resolution of the clock, a      *)
(* whole second; DayTicks of them make a UTC day, HourTicks an hour.       *)
(***************************************************************************)
DayTicks == 86400
HourTicks == 3600
DefaultLimit == 50

\* A date text handed in by a caller: its form and the instant it names.
\*   "full"  YYYY-MM-DDTHH:mm:ss.sssZ, the form toISOString() writes
\*   "short" YYYY-MM-DDTHH:mm:ssZ
\*   "date"  YYYY-MM-DD, naming the start of that UTC day
TimeText(form, t) == [ form |-> form, t |-> t ]
DateOf(t) == t \div DayTicks
InstantOf(text) ==
    IF text.form = "date" THEN DateOf(text.t) * DayTicks ELSE text.t

\* e.timestamp >= startDate, two strings compared character by character:
\* against a short text the stored one has '.' where the other has 'Z'
\* once the seconds agree, and a date text is a proper prefix of the
\* stored texts of its day
StringGeq(timestamp, text) ==
    CASE text.form = "full"  -> timestamp >= text.t
      [] text.form = "short" -> timestamp > text.t
      [] text.form = "date"  -> DateOf(timestamp) >= DateOf(text.t)

\* e.timestamp <= endDate
StringLeq(timestamp, text) ==
    CASE text.form = "full"  -> timestamp <= text.t
      [] text.form = "short" -> timestamp <= text.t
      [] text.form = "date"  -> DateOf(timestamp) < DateOf(text.t)

\* the texts of ?limit= in use
LimitArgs == {"", "0", "1", "2", "3", "-1"}

\* the integer Array.prototype.slice makes of the text of a limit: the empty
\* text is 0
ToIntegerOf(s) ==
    CASE s = "1"  -> 1
      [] s = "2"  -> 2
      [] s = "3"  -> 3
      [] s = "-1" -> -1
      [] OTHER    -> 0

\* xs.slice(0, end): a negative end counts from the end of xs
Slice0(xs, end) ==
    SubSeq(xs, 1, IF end < 0
                  THEN (IF Len(xs) + end > 0 THEN Len(xs) + end ELSE 0)
                  ELSE Min(end, Len(xs)))

\* getWasteHistory(options) on the query of a request: options.limit is <<>>
\* when the query has no limit (the default then applies), else << text >>,
\* the empty text included; startDate and endDate are <<>> when the option
\* is missing or empty, else << value >>
GetWasteHistory(d, options) ==
    LET limit == IF options.limit = <<>> THEN DefaultLimit
                 ELSE ToIntegerOf(options.limit[1])
        fromStart ==
            IF options.startDate = <<>> THEN d.entries
            ELSE SelectSeq(d.entries,
                           LAMBDA e : StringGeq(e.timestamp, options.startDate[1]))
        toEnd ==
            IF options.endDate = <<>> THEN fromStart
            ELSE SelectSeq(fromStart,
                           LAMBDA e : StringLeq(e.timestamp, options.endDate[1]))
        sorted == SortByTimestampDesc(toEnd)
        page == Slice0(sorted, limit)
    IN  [ k \in 1..Len(page) |->
            [ entry |-> page[k], items |-> ItemsOfEntry(d, page[k].id) ] ]

\* GET /api/waste-history: the handler awaits the value of getWasteHistory
\* and sends it in a later Respond
GetHistory(options) ==
    /\ RoomToAwait
    /\ Await([ Answer("history") EXCEPT
                 !.status = 200,
                 !.query = options,
                 !.body = GetWasteHistory(data, options) ])
    /\ UNCHANGED <<data, disk, now, req, last, issuedE, issuedI, cleared, failures>>

\* the store after one upload of image h at time t for which the vision call
\* gave `fresh`, no other request being in progress
Ingest(d, t, h, fresh) ==
    LET rec == Reconcile(FindEntryByImageHash(d, h), fresh)
    IN  LogWaste(d, [ items |-> rec.items,
                      timestamp |-> t,
                      imageHash |-> h,
                      duplicateOfEntryId |-> rec.duplicateOfEntryId,
                      consistencyNote |-> rec.consistencyNote ]).data

RECURSIVE BuildStore(_)
\* the store after the uploads of a plan, one after the other; a plan is a
\* sequence of [timestamp, imageHash, items]
BuildStore(plan) ==
    IF plan = <<>> THEN EmptyData
    ELSE LET u == plan[Len(plan)]
         IN  Ingest(BuildStore(SubSeq(plan, 1, Len(plan) - 1)),
                    u.timestamp, u.imageHash, u.items)

\* a server whose store is d at time t, all of it written to the file and
\* nothing in progress
InitWith(d, t) ==
    /\ data = d
    /\ disk = [ ok |-> TRUE, img |-> data ]
    /\ now = t
    /\ req = [ r \in Reqs |-> IdleReq ]
    /\ last = Answer("init")
    /\ outbox = <<>>
    /\ issuedE = [ k \in 1..Len(data.entries) |-> data.entries[k].id ]
    /\ issuedI = [ k \in 1..Len(data.items) |-> data.items[k].id ]
    /\ cleared = FALSE
    /\ failures = 0

(***************************************************************************)
(* GET /api/waste-history on stores made by uploads at four times: the     *)
(* start of a day, twice the same later second of that day, and the start  *)
(* of the next day; and on a store of more entries than the default limit. *)
(***************************************************************************)
HistoryTimes == << DayTicks, DayTicks + 1, DayTicks + 1, 2 * DayTicks >>

HistoryResults ==
    { <<>>,
      << VItem("apple", 120) >>,
      << VItem("Apple", 200), VItem("bread", 33) >> }

\* the uploads of a plan: those of the times for which pick holds a result,
\* the k-th being an upload of image hashes[k]
PlanOf(times, hashes, pick) ==
    LET all == [ k \in 1..Len(times) |->
                   [ timestamp |-> times[k],
                     imageHash |-> hashes[k],
                     pick |-> pick[k] ] ]
        chosen == SelectSeq(all, LAMBDA u : u.pick # <<>>)
    IN  [ k \in 1..Len(chosen) |->
            [ timestamp |-> chosen[k].timestamp,
              imageHash |-> chosen[k].imageHash,
              items |-> chosen[k].pick[1] ] ]

HistoryPlans ==
    { PlanOf(HistoryTimes, << "h1", "h2", "h1", "h2" >>, pick) :
        pick \in [ 1..Len(HistoryTimes) ->
                     {<<>>} \cup { << r >> : r \in HistoryResults } ] }

\* the store after DefaultLimit + 1 uploads of one image in which nothing was
\* found, all of them looked up before the first was stored
LongStore ==
    [ entries |-> [ k \in 1..(DefaultLimit + 1) |->
                      [ id |-> k,
                        timestamp |-> DayTicks + (k \div 20),
                        total_estimated_value |-> ZeroNum,
                        image_hash |-> "h1",
                        duplicate_of_entry_id |-> NULL,
                        consistency_note |-> <<>> ] ],
      items |-> <<>>,
      nextEntryId |-> DefaultLimit + 2,
      nextItemId |-> 1 ]

HistoryBounds ==
    { <<>>,
      << TimeText("full", DayTicks + 1) >>,
      << TimeText("short", DayTicks + 1) >>,
      << TimeText("date", 2 * DayTicks) >> }

HistoryQueries ==
    [ limit : { <<>> } \cup { << s >> : s \in LimitArgs },
      startDate : HistoryBounds,
      endDate : HistoryBounds ]

InitHistory ==
    \E d \in { BuildStore(plan) : plan \in HistoryPlans } \cup { LongStore } :
       InitWith(d, 2 * DayTicks)

\* the first request the server gets, and its answer
NextHistory ==
    \/ last.op = "init" /\ outbox = <<>>
          /\ \E options \in HistoryQueries : GetHistory(options)
    \/ Respond

SpecHistory == InitHistory /\ [][NextHistory]_vars

\* entry e lies within the bounds of a query, as instants, both ends included
WithinBounds(e, q) ==
    /\ q.startDate # <<>> => e.timestamp >= InstantOf(q.startDate[1])
    /\ q.endDate # <<>> => e.timestamp <= InstantOf(q.endDate[1])

\* the query names a count of entries as its limit, or none
CountsEntries(q) ==
    q.limit = <<>> \/ q.limit[1] \in {"0", "1", "2", "3"}

\* C18: for a limit that is a count, the list answers with at most limit
\* entries (50 when no limit is given), all within the bounds given, both
\* ends included, newest first, and no entry within the bounds that is left
\* out is newer than one returned or is left out while there is room; every
\* entry comes with exactly its own items, none when it has none.
C18_ListBoundedOrderedJoined ==
    (last.op = "history" /\ CountsEntries(last.query)) =>
      LET q == last.query
          body == last.body
          limit == IF q.limit = <<>> THEN 50 ELSE ToIntegerOf(q.limit[1])
      IN  /\ Len(body) <= limit
          /\ \A k \in 1..Len(body) :
                /\ WithinBounds(body[k].entry, q)
                /\ \E j \in 1..Len(data.entries) : data.entries[j] = body[k].entry
                /\ \A j \in 1..Len(body) :
                      body[j].entry.id = body[k].entry.id => j = k
                /\ k < Len(body) =>
                      body[k].entry.timestamp >= body[k + 1].entry.timestamp
                /\ LET rows == RowsOfEntry(data, body[k].entry.id)
                   IN  /\ Len(body[k].items) = Len(rows)
                       /\ \A j \in 1..Len(rows) :
                             /\ body[k].items[j].id = rows[j].id
                             /\ body[k].items[j].name = rows[j].name
                             /\ body[k].items[j].estimatedValue
                                   = rows[j].estimated_value
          /\ \A j \in 1..Len(data.entries) :
                (/\ WithinBounds(data.entries[j], q)
                 /\ \A k \in 1..Len(body) : body[k].entry.id # data.entries[j].id)
                => /\ Len(body) = limit
                   /\ \A k \in 1..Len(body) :
                         body[k].entry.timestamp >= data.entries[j].timestamp

(***************************************************************************)
(* Starting on a file that lacks a counter: the file holds the entries and *)
(* items of a store after up to two uploads and at most one deletion, with *)
(* nextEntryId, nextItemId or both missing (0).  The first step is         *)
(* initDatabase; uploads follow one at a time.                             *)
(***************************************************************************)
ReloadTimes == << 0, 0 >>

ReloadStores ==
    LET built == { BuildStore(PlanOf(ReloadTimes, << "h1", "h2" >>, pick)) :
                     pick \in [ 1..Len(ReloadTimes) ->
                                  {<<>>} \cup { << r >> : r \in HistoryResults } ] }
    IN  built \cup { DeleteEntryById(d, id).data : d \in built, id \in {"1", "2"} }

ReloadFiles ==
    { [ ok |-> TRUE, img |-> [ d EXCEPT !.nextEntryId = 0 ] ] : d \in ReloadStores }
       \cup
    { [ ok |-> TRUE, img |-> [ d EXCEPT !.nextItemId = 0 ] ] : d \in ReloadStores }
       \cup
    { [ ok |-> TRUE, img |-> [ d EXCEPT !.nextEntryId = 0, !.nextItemId = 0 ] ] :
         d \in ReloadStores }

InitReload ==
    /\ data = EmptyData
    /\ disk \in ReloadFiles
    /\ now = 0
    /\ req = [ r \in Reqs |-> IdleReq ]
    /\ last = Answer("init")
    /\ outbox = <<>>
    /\ issuedE = <<>>
    /\ issuedI = <<>>
    /\ cleared = FALSE
    /\ failures = 0

NextReload ==
    \/ Respond
    \/ last.op = "init" /\ Restart("ok")
    \/ last.op # "init" /\ AnalyzeLookup("r1", "h1")
    \/ last.op # "init" /\ \E fresh \in VisionResults : AnalyzeComplete("r1", fresh, "ok")

SpecReload == InitReload /\ [][NextReload]_vars

\* n is one above the largest id of the rows, 1 when there are none
OneAboveIds(n, rows) ==
    LET ids == { rows[k].id : k \in 1..Len(rows) }
    IN  IF ids = {} THEN n = 1
        ELSE (n - 1) \in ids /\ \A i \in ids : i <= n - 1

\* C19: loading a file that lacks a counter sets that counter to one above the
\* largest id in the file, 1 when the file has no such rows, the entry counter
\* from the entries and the item counter from the items; the rows are loaded
\* as they are, and no two entries and no two items ever share an id in the
\* store afterwards.
C19_MissingCounterRecomputed ==
    [][ /\ (last.op = "init" /\ last'.op = "restart") =>
              /\ data'.entries = disk.img.entries
              /\ data'.items = disk.img.items
              /\ IF disk.img.nextEntryId = 0
                 THEN OneAboveIds(data'.nextEntryId, disk.img.entries)
                 ELSE data'.nextEntryId = disk.img.nextEntryId
              /\ IF disk.img.nextItemId = 0
                 THEN OneAboveIds(data'.nextItemId, disk.img.items)
                 ELSE data'.nextItemId = disk.img.nextItemId
        /\ \A j, k \in 1..Len(data'.entries) :
              data'.entries[j].id = data'.entries[k].id => j = k
        /\ \A j, k \in 1..Len(data'.items) :
              data'.items[j].id = data'.items[k].id => j = k ]_vars

\* a file without counters held entry 2 only, entry 1 having been deleted;
\* after the load an upload with items was stored as entry 3
C19_Witness ==
    /\ last.op = "log"
    /\ Len(data.entries) = 2
    /\ data.entries[1].id = 2
    /\ data.entries[2].id = 3
    /\ last.entryId = 3
    /\ last.itemIds # <<>>
    /\ RowsOfEntry(data, 2) # <<>>

(***************************************************************************)
(* db.js: getWasteStats and getSuggestions.                                *)
(***************************************************************************)
ThirtyDays == 30
RecentDays == 3

\* What the local zone did to its clocks in the thirty days before a read:
\* the seconds by which its offset from UTC now is above the offset thirty
\* calendar days ago.  setDate(getDate() - 30) keeps the local time of day.
\* Daylight saving is set forward or back by an hour in most zones, by half
\* an hour in Australia/Lord_Howe and by two hours in Antarctica/Troll.
ZoneShifts ==
    { sign * step : sign \in { 0 - 1, 0, 1 },
                    step \in { HourTicks \div 2, HourTicks, 2 * HourTicks } }

RECURSIVE SumOf(_)
\* reduce((sum, x) => sum + x, 0) on a sequence of Numbers
SumOf(xs) ==
    IF xs = <<>> THEN ZeroNum
    ELSE LET sum == SumOf(SubSeq(xs, 1, Len(xs) - 1))
         IN  IF sum = ZeroNum THEN xs[Len(xs)] ELSE NumAdd(sum, xs[Len(xs)])

\* the keys of an object filled in the order of xs: each key once, in the
\* order of its first appearance
FirstSeen(xs) ==
    LET firsts == { k \in 1..Len(xs) : \A j \in 1..(k - 1) : xs[j] # xs[k] }
    IN  [ i \in 1..Cardinality(firsts) |->
            xs[CHOOSE k \in firsts : Cardinality({ j \in firsts : j < k }) = i - 1] ]

RECURSIVE InsertByRankDesc_beforeEqual(_, _)
\* variant: e goes in front of the elements of its own rank
InsertByRankDesc_beforeEqual(sorted, e) ==
    IF sorted = <<>> THEN << e >>
    ELSE IF Head(sorted).rank > e.rank
         THEN << Head(sorted) >> \o InsertByRankDesc_beforeEqual(Tail(sorted), e)
         ELSE << e >> \o sorted

RECURSIVE InsertByRankDesc(_, _)
\* place e behind every element whose rank is not below its own
InsertByRankDesc(sorted, e) ==
    IF sorted = <<>> THEN << e >>
    ELSE IF Head(sorted).rank >= e.rank
         THEN << Head(sorted) >> \o InsertByRankDesc(Tail(sorted), e)
         ELSE << e >> \o sorted

RECURSIVE SortByRankDesc(_)
\* Array.prototype.sort((a, b) => rank(b) - rank(a)), a stable sort, on a
\* sequence of [rank, val]
SortByRankDesc(xs) ==
    IF xs = <<>> THEN <<>>
    ELSE InsertByRankDesc(SortByRankDesc(SubSeq(xs, 1, Len(xs) - 1)), xs[Len(xs)])

\* the values of a sequence of [rank, val] in descending order of rank
SortedDesc(xs) ==
    LET ranked == SortByRankDesc(xs)
    IN  [ k \in 1..Len(ranked) |-> ranked[k].val ]

RECURSIVE InsertByValueDesc(_, _)
\* place e behind every element whose rank, a Number, is not below its own:
\* rank(b) - rank(a) is positive only then
InsertByValueDesc(sorted, e) ==
    IF sorted = <<>> THEN << e >>
    ELSE IF NumCmp(Head(sorted).rank, e.rank) >= 0
         THEN << Head(sorted) >> \o InsertByValueDesc(Tail(sorted), e)
         ELSE << e >> \o sorted

RECURSIVE SortByValueDesc(_)
\* Array.prototype.sort((a, b) => b.total_value - a.total_value), a stable
\* sort on the Numbers as they were summed, on a sequence of [rank, val]
SortByValueDesc(xs) ==
    IF xs = <<>> THEN <<>>
    ELSE InsertByValueDesc(SortByValueDesc(SubSeq(xs, 1, Len(xs) - 1)), xs[Len(xs)])

\* the values of a sequence of [rank, val] in descending order of the Numbers
\* that are their ranks
SortedByValueDesc(xs) ==
    LET ranked == SortByValueDesc(xs)
    IN  [ k \in 1..Len(ranked) |-> ranked[k].val ]

\* variant: the entries are counted by the ids handed out
OverallStats_idsIssued(d) ==
    LET totalValue == SumOf([ k \in 1..Len(d.entries) |->
                                d.entries[k].total_estimated_value ])
    IN  [ total_entries |-> d.nextEntryId - 1,
          total_value |-> totalValue,
          avg_value |-> IF d.nextEntryId - 1 > 0
                        THEN NumDiv(totalValue, FromInt(d.nextEntryId - 1))
                        ELSE ZeroNum ]

\* stats.overall
OverallStats(d) ==
    LET totalValue == SumOf([ k \in 1..Len(d.entries) |->
                                d.entries[k].total_estimated_value ])
    IN  [ total_entries |-> Len(d.entries),
          total_value |-> totalValue,
          avg_value |-> IF Len(d.entries) > 0
                        THEN NumDiv(totalValue, FromInt(Len(d.entries)))
                        ELSE ZeroNum ]

\* stats.topItems
TopItems(d) ==
    LET names == FirstSeen([ k \in 1..Len(d.items) |-> d.items[k].name ])
        counts == [ k \in 1..Len(names) |->
                      LET rows == SelectSeq(d.items, LAMBDA it : it.name = names[k])
                          total == SumOf([ j \in 1..Len(rows) |-> rows[j].estimated_value ])
                      IN  [ name |-> names[k],
                            category |-> rows[1].category,
                            frequency |-> Len(rows),
                            total_value |-> total,
                            avg_value |-> NumDiv(total, FromInt(Len(rows))) ] ]
        sorted == SortedDesc([ k \in 1..Len(counts) |->
                                 [ rank |-> counts[k].frequency, val |-> counts[k] ] ])
    IN  SubSeq(sorted, 1, IF Len(sorted) < 10 THEN Len(sorted) ELSE 10)

\* stats.dailyStats at clock value t in a zone that shifted its clocks by
\* `shift`: thirtyDaysAgo is the same local time of day thirty calendar days
\* earlier; the buckets are UTC dates
DailyStats(d, t, shift) ==
    LET thirtyDaysAgo == t - ThirtyDays * DayTicks + shift
        recentEntries == SelectSeq(d.entries, LAMBDA e : e.timestamp >= thirtyDaysAgo)
        dates == FirstSeen([ k \in 1..Len(recentEntries) |->
                               DateOf(recentEntries[k].timestamp) ])
        daily == [ k \in 1..Len(dates) |->
                     LET rows == SelectSeq(recentEntries,
                                           LAMBDA e : DateOf(e.timestamp) = dates[k])
                     IN  [ date |-> dates[k],
                           entries |-> Len(rows),
                           total_value |->
                              SumOf([ j \in 1..Len(rows) |->
                                        rows[j].total_estimated_value ]) ] ]
    IN  SortedDesc([ k \in 1..Len(daily) |->
                       [ rank |-> daily[k].date, val |-> daily[k] ] ])

\* stats.categoryStats
CategoryStats(d) ==
    LET cats == FirstSeen([ k \in 1..Len(d.items) |-> d.items[k].category ])
        counts == [ k \in 1..Len(cats) |->
                      LET rows == SelectSeq(d.items, LAMBDA it : it.category = cats[k])
                      IN  [ category |-> cats[k],
                            frequency |-> Len(rows),
                            total_value |->
                               SumOf([ j \in 1..Len(rows) |-> rows[j].estimated_value ]) ] ]
    IN  SortedByValueDesc([ k \in 1..Len(counts) |->
                              [ rank |-> counts[k].total_value, val |-> counts[k] ] ])

GetWasteStats(d, t, shift) ==
    [ overall |-> OverallStats(d),
      topItems |-> TopItems(d),
      dailyStats |-> DailyStats(d, t, shift),
      categoryStats |-> CategoryStats(d) ]

\* recentAvg > avgDaily * 1.2 && avgDaily > 0: 1.2 is the double nearest to
\* it and the product is rounded to a double before it is compared
TrendRises(recentAvg, avgDaily) ==
    /\ NumCmp(recentAvg, NumMul(avgDaily, FromCents(120))) > 0
    /\ Positive(avgDaily)

\* ((recentAvg / avgDaily - 1) * 100).toFixed(0), for recentAvg > avgDaily:
\* the whole number nearest to the double the three operations give
PercentIncrease(recentAvg, avgDaily) ==
    RoundedTimes(NumMul(NumSub(NumDiv(recentAvg, avgDaily), FromInt(1)),
                        FromInt(100)), 1)

\* a suggestion; total_value is the amount its texts show, in hundredths
\* (toFixed(2)), percent the increase its text shows
Suggestion(type, priority) ==
    [ type |-> type, priority |-> priority, subject |-> "",
      frequency |-> 0, total_value |-> 0, percent |-> 0 ]

PriorityOrder(p) == CASE p = "high" -> 3 [] p = "medium" -> 2 [] p = "low" -> 1

\* lines 238-249: the item wasted most often, when wasted five times or more
PortionSuggestions(topItems) ==
    IF Len(topItems) > 0 /\ topItems[1].frequency >= 5
    THEN << [ Suggestion("portion_adjustment", "high") EXCEPT
                !.subject = topItems[1].name,
                !.frequency = topItems[1].frequency,
                !.total_value = Cents(topItems[1].total_value) ] >>
    ELSE <<>>

\* cat.frequency >= 10 && cat.total_value > 50
HeavyCategories(categoryStats) ==
    SelectSeq(categoryStats,
              LAMBDA cat : /\ cat.frequency >= 10
                           /\ NumCmp(cat.total_value, FromInt(50)) > 0)

\* lines 252-264: one review for each heavy category, in the order of
\* categoryStats
MenuSuggestions(heavy) ==
    [ k \in 1..Len(heavy) |->
        [ Suggestion("menu_change", "medium") EXCEPT
            !.subject = heavy[k].category,
            !.frequency = heavy[k].frequency,
            !.total_value = Cents(heavy[k].total_value) ] ]

\* days.reduce((sum, day) => sum + day.total_value, 0) / days.length
MeanTotal(days) ==
    NumDiv(SumOf([ k \in 1..Len(days) |-> days[k].total_value ]), FromInt(Len(days)))

\* lines 267-282: avgDaily over all buckets, recentAvg over slice(0, 3)
TrendSuggestions(days) ==
    IF Len(days) > 0 /\ TrendRises(MeanTotal(Slice0(days, RecentDays)), MeanTotal(days))
    THEN << [ Suggestion("trend_alert", "high") EXCEPT
                !.percent = PercentIncrease(MeanTotal(Slice0(days, RecentDays)),
                                            MeanTotal(days)) ] >>
    ELSE <<>>

\* lines 292-295: suggestions.sort by priorityOrder, high first
SortByPriority(suggestions) ==
    SortedDesc([ k \in 1..Len(suggestions) |->
                   [ rank |-> PriorityOrder(suggestions[k].priority),
                     val |-> suggestions[k] ] ])

\* the suggestions in the order they are pushed, then sorted
SuggestionsFrom(stats) ==
    SortByPriority(PortionSuggestions(stats.topItems)
                      \o MenuSuggestions(HeavyCategories(stats.categoryStats))
                      \o TrendSuggestions(stats.dailyStats)
                      \o << Suggestion("best_practice", "low") >>)

\* getSuggestions at clock value t in a zone that shifted its clocks by `shift`
GetSuggestions(d, t, shift) == SuggestionsFrom(GetWasteStats(d, t, shift))

\* GET /api/waste-stats: the handler awaits the value of getWasteStats and
\* sends it in a later Respond
GetStats(shift) ==
    /\ RoomToAwait
    /\ Await([ Answer("stats") EXCEPT
                 !.status = 200,
                 !.query = [ at |-> now, shift |-> shift ],
                 !.body = GetWasteStats(data, now, shift) ])
    /\ UNCHANGED <<data, disk, now, req, last, issuedE, issuedI, cleared, failures>>

\* GET /api/suggestions: the handler awaits the value of getSuggestions
GetSuggest(shift) ==
    /\ RoomToAwait
    /\ Await([ Answer("suggestions") EXCEPT
                 !.status = 200,
                 !.query = [ at |-> now, shift |-> shift ],
                 !.body = GetSuggestions(data, now, shift) ])
    /\ UNCHANGED <<data, disk, now, req, last, issuedE, issuedI, cleared, failures>>

(***************************************************************************)
(* Statistics and suggestions on stores made by uploads of different       *)
(* images, each with one item, at six times: before the thirty days,       *)
(* thirty days ago or shortly after, two days ago, a day ago, and twice    *)
(* today.  The first two times lie on both sides of every instant that     *)
(* thirtyDaysAgo can be.  Among the prices are those whose daily means     *)
(* meet the factor 1.2 exactly: 3.60, 3.60, 3.60 and 1.20 a day make a     *)
(* recent mean of 3.60 and an overall mean of 3.00.                        *)
(***************************************************************************)
ReadNow == ThirtyDays * DayTicks + 2 * HourTicks + 5

TrendTimes(early, edge) ==
    << ReadNow - ThirtyDays * DayTicks + early,
       ReadNow - ThirtyDays * DayTicks + edge,
       ReadNow - 2 * DayTicks,
       ReadNow - DayTicks,
       ReadNow - 1,
       ReadNow >>

\* what the upload at each of the times may be: <<>> for none
TrendPicks ==
    << { <<>>, << << VItem("apple", 100) >> >> },
       { <<>>, << << VItem("bread", 120) >> >>, << << VItem("bread", 10) >> >>,
         << << VItem("bread", 1300) >> >> },
       { <<>>, << << VItem("apple", 360) >> >>, << << VItem("apple", 500) >> >> },
       { <<>>, << << VItem("rice", 360) >> >>, << << VItem("rice", 500) >> >> },
       { <<>>, << << VItem("apple", 100) >> >> },
       { <<>>, << << VItem("apple", 360) >> >>, << << VItem("apple", 590) >> >> } >>

\* the times of the first two uploads that are tried with a pick of results,
\* in seconds after the instant thirty days before the read: a first upload
\* a second, three quarters of an hour or an hour and a half before it, a
\* second upload at it, or, when it is the bread of 1.20, also three
\* quarters of an hour or an hour and a half after it: between any two
\* neighbouring values of thirtyDaysAgo lies one of these times
TrendOffsets(p1, p2) ==
    (IF p1 = <<>> THEN { 0 - 1 } ELSE { 0 - 5400, 0 - 2700, 0 - 1 })
        \X (IF p2 = << << VItem("bread", 120) >> >> THEN { 0, 2700, 5400 } ELSE { 0 })

TrendPlans ==
    UNION { { PlanOf(TrendTimes(o[1], o[2]), << "h1", "h2", "h3", "h4", "h5", "h6" >>,
                     << p1, p2, p3, p4, p5, p6 >>) : o \in TrendOffsets(p1, p2) } :
            p1 \in TrendPicks[1], p2 \in TrendPicks[2], p3 \in TrendPicks[3],
            p4 \in TrendPicks[4], p5 \in TrendPicks[5], p6 \in TrendPicks[6] }

InitTrend == \E plan \in TrendPlans : InitWith(BuildStore(plan), ReadNow)

\* the first request the server gets, and its answer
NextTrend ==
    \/ last.op = "init" /\ outbox = <<>> /\ \E shift \in ZoneShifts : GetStats(shift)
    \/ last.op = "init" /\ outbox = <<>> /\ \E shift \in ZoneShifts : GetSuggest(shift)
    \/ Respond

SpecTrend == InitTrend /\ [][NextTrend]_vars

\* the entries of the thirty days before the clock value t, the dates they
\* fall on, and the sum of the totals of those whose date is in a set
WindowEntries(d, t) ==
    SelectSeq(d.entries, LAMBDA e : t - e.timestamp <= 30 * DayTicks)
WindowDates(d, t) ==
    { DateOf(WindowEntries(d, t)[k].timestamp) : k \in 1..Len(WindowEntries(d, t)) }
WindowTotal(d, t, dates) ==
    LET rows == SelectSeq(WindowEntries(d, t), LAMBDA e : DateOf(e.timestamp) \in dates)
    IN  SumOf([ k \in 1..Len(rows) |-> rows[k].total_estimated_value ])

RECURSIVE SumInts(_)
SumInts(xs) == IF xs = <<>> THEN 0 ELSE Head(xs) + SumInts(Tail(xs))

\* the totals, in hundredths, of the daily buckets a read was given
BucketCents(d, query) ==
    LET days == DailyStats(d, query.at, query.shift)
    IN  [ k \in 1..Len(days) |-> Cents(days[k].total_value) ]

\* C20: the suggestions hold a trend_alert exactly when the mean total of the
\* three most recent daily buckets is above 1.2 times the mean total of all
\* daily buckets and that overall mean is positive; the alert is one, and the
\* percentage it reports is (recent mean / overall mean - 1) x 100 as a whole
\* number.
C20_TrendAlertRule ==
    last.op = "suggestions" =>
      LET alerts == SelectSeq(last.body, LAMBDA s : s.type = "trend_alert")
          days == BucketCents(data, last.query)
          n == Len(days)
          m == Min(n, 3)
          allSum == SumInts(days)
          recentSum == SumInts(SubSeq(days, 1, m))
          \* recentSum / m > 1.2 * allSum / n, both sides times 10 * m * n
          rises == /\ n > 0
                   /\ 10 * recentSum * n > 12 * allSum * m
                   /\ allSum > 0
      IN  /\ Len(alerts) = (IF rises THEN 1 ELSE 0)
          /\ rises =>
                LET exactNum == 100 * (recentSum * n - allSum * m)
                    exactDen == allSum * m
                    off == alerts[1].percent * exactDen - exactNum
                IN  /\ 2 * off <= exactDen
                    /\ 2 * off >= 0 - exactDen

(***************************************************************************)
(* Statistics and suggestions on stores with many items: up to three       *)
(* uploads of five fruit items followed by up to three uploads of five     *)
(* grain items, every upload a different image, either all of them today   *)
(* or one a day up to today.                                               *)
(***************************************************************************)
FruitUploads ==
    { << VItem("apple", 900), VItem("pear", 800), VItem("apple", 600),
         VItem("pear", 400), VItem("apple", 300) >>,
      << VItem("apple", 300), VItem("pear", 200), VItem("apple", 200),
         VItem("pear", 200), VItem("apple", 100) >> }

GrainUploads ==
    { << VItem("bread", 900), VItem("rice", 800), VItem("bread", 700),
         VItem("rice", 600), VItem("bread", 500) >>,
      << VItem("bread", 2500), VItem("rice", 2000), VItem("bread", 1800),
         VItem("rice", 1500), VItem("bread", 1200) >> }

UploadCounts == 0..3

\* nFruit uploads of fruit, then nGrain uploads of grain; when spread, the
\* last upload is today and each earlier one a day before the next
ManyItemsPlan(fruit, nFruit, grain, nGrain, spread) ==
    [ k \in 1..(nFruit + nGrain) |->
        [ timestamp |-> IF spread THEN ReadNow - (nFruit + nGrain - k) * DayTicks
                        ELSE ReadNow,
          imageHash |-> << "h1", "h2", "h3", "h4", "h5", "h6" >>[k],
          items |-> IF k <= nFruit THEN fruit ELSE grain ] ]

ManyItemsPlans ==
    { ManyItemsPlan(fruit, nFruit, grain, nGrain, spread) :
        fruit \in FruitUploads, nFruit \in UploadCounts,
        grain \in GrainUploads, nGrain \in UploadCounts,
        spread \in BOOLEAN }

InitManyItems == \E plan \in ManyItemsPlans : InitWith(BuildStore(plan), ReadNow)

SpecManyItems == InitManyItems /\ [][NextTrend]_vars

\* the place of a suggestion in the order of emission
EmissionOrder(d, s) ==
    CASE s.type = "portion_adjustment" -> 0
      [] s.type = "menu_change" ->
            CHOOSE k \in 1..Len(CategoryStats(d)) :
               CategoryStats(d)[k].category = s.subject
      [] s.type = "trend_alert" -> Len(CategoryStats(d)) + 1
      [] s.type = "best_practice" -> Len(CategoryStats(d)) + 2

\* C21: the suggestions come high before medium before low, those of one
\* priority in the order they were emitted (portion adjustment, category
\* reviews in the order of categoryStats, trend alert, best practice), and
\* exactly one of them is the low best_practice, also on an empty store.
C21_SuggestionsOrdered ==
    last.op = "suggestions" =>
      LET body == last.body
          level(s) == CASE s.priority = "high" -> 3
                        [] s.priority = "medium" -> 2
                        [] s.priority = "low" -> 1
      IN  /\ \A i, j \in 1..Len(body) :
                i < j =>
                   /\ level(body[i]) >= level(body[j])
                   /\ level(body[i]) = level(body[j]) =>
                         EmissionOrder(data, body[i]) < EmissionOrder(data, body[j])
          /\ Cardinality({ k \in 1..Len(body) : body[k].type = "best_practice" }) = 1
          /\ \A k \in 1..Len(body) :
                body[k].priority = "low" <=> body[k].type = "best_practice"

\* all four kinds at once: a portion adjustment, a trend alert, the reviews
\* of two categories and the best practice
C21_Witness ==
    /\ last.op = "suggestions"
    /\ Len(last.body) = 5
    /\ last.body[1].type = "portion_adjustment"
    /\ last.body[2].type = "trend_alert"
    /\ last.body[3].type = "menu_change"
    /\ last.body[4].type = "menu_change"
    /\ last.body[3].total_value > last.body[4].total_value
    /\ last.body[5].type = "best_practice"

\* the suggestions on an empty store are the best practice alone
C21_WitnessEmptyStore ==
    /\ last.op = "suggestions"
    /\ data.entries = <<>>
    /\ Len(last.body) = 1

\* C22: dailyStats counts exactly the entries that are not older than thirty
\* days at the time of the call, an entry exactly thirty days old included:
\* there is one bucket for each date such an entry falls on, holding the
\* number of these entries and the sum of their totals, and the buckets come
\* by date, the latest first.
C22_DailyStatsWindow ==
    last.op = "stats" =>
      LET daily == last.body.dailyStats
          counted == WindowEntries(data, now)
          onDate(x) == SelectSeq(counted, LAMBDA e : DateOf(e.timestamp) = x)
      IN  /\ \A k \in 1..Len(data.entries) :
                (\E j \in 1..Len(counted) : counted[j] = data.entries[k])
                   <=> data.entries[k].timestamp + 30 * DayTicks >= now
          /\ { daily[k].date : k \in 1..Len(daily) } = WindowDates(data, now)
          /\ \A k \in 1..Len(daily) :
                /\ daily[k].entries = Len(onDate(daily[k].date))
                /\ daily[k].total_value = WindowTotal(data, now, { daily[k].date })
                /\ k < Len(daily) => daily[k].date > daily[k + 1].date

(***************************************************************************)
(* Statistics read between uploads, deletions and clearAll, one request at *)
(* a time, every durable write succeeding.                                 *)
(***************************************************************************)
NextStats ==
    \/ Quiet /\ \E h \in Hashes : AnalyzeLookup("r1", h)
    \/ Quiet /\ \E fresh \in VisionResults : AnalyzeComplete("r1", fresh, "ok")
    \/ Quiet /\ \E id \in DeleteArgs : DeleteEntry(id, "ok")
    \/ Quiet /\ ClearAll("ok")
    \/ Quiet /\ GetStats(0)
    \/ Respond

SpecStats == Init /\ [][NextStats]_vars

RECURSIVE TotalOfEntries(_)
\* the decimal sum, in hundredths, of total_estimated_value over entries
TotalOfEntries(entries) ==
    IF entries = <<>> THEN 0
    ELSE Cents(Head(entries).total_estimated_value) + TotalOfEntries(Tail(entries))

\* C23: the statistics worked out on a store give, as overall.total_entries,
\* the number of entries in the store, as overall.total_value the sum of
\* their totals (the Number the additions give, which shows the decimal sum
\* to the cent), and as overall.avg_value 0 for an empty store and
\* total_value / total_entries otherwise, whatever was deleted or cleared
\* before.
C23_OverallStats ==
    [][ Readies("stats") =>
          LET overall == Readied.body.overall
              n == Len(data.entries)
          IN  /\ overall.total_entries = n
              /\ overall.total_value
                    = SumOf([ k \in 1..n |-> data.entries[k].total_estimated_value ])
              /\ Cents(overall.total_value) = TotalOfEntries(data.entries)
              /\ IF n = 0 THEN overall.avg_value = ZeroNum
                 ELSE overall.avg_value = NumDiv(overall.total_value, FromInt(n))
      ]_vars

\* statistics read after a deletion that left an entry of positive total
C23_Witness ==
    /\ last.op = "stats"
    /\ Len(data.entries) = 1
    /\ Len(issuedE) = 2
    /\ data.entries[1].id = 2
    /\ Positive(last.body.overall.total_value)
    /\ last.body.overall.avg_value = last.body.overall.total_value

\* statistics read on the store emptied by clearAll
C23_WitnessCleared ==
    /\ last.op = "stats"
    /\ cleared
    /\ issuedE # <<>>
    /\ last.body.overall.total_entries = 0
    /\ last.body.overall.avg_value = ZeroNum

(***************************************************************************)
(* The client's Suggestions view: it asks the list for the three newest    *)
(* entries and works its own suggestions out of them.                      *)
(***************************************************************************)
RecentLimit == 3
RepeatedShown == 3
SpoiledShown == 2
HighValue == 10
NudgeValue == 5

RECURSIVE FlattenItems(_)
\* the items of a list of joined entries, entry after entry
FlattenItems(entries) ==
    IF entries = <<>> THEN <<>>
    ELSE FlattenItems(SubSeq(entries, 1, Len(entries) - 1))
           \o entries[Len(entries)].items

\* generateSuggestionsFromEntries: the suggestions worked out of the entries
\* handed in, in the order they are pushed
GenerateSuggestionsFromEntries(entries) ==
    LET totalRecentValue ==
            SumOf([ k \in 1..Len(entries) |->
                      entries[k].entry.total_estimated_value ])
        all == FlattenItems(entries)
        keys == FirstSeen([ k \in 1..Len(all) |-> ToLowerCase(all[k].name) ])
        itemOf(key) ==
            LET rows == SelectSeq(all, LAMBDA i : ToLowerCase(i.name) = key)
            IN  [ name |-> rows[1].name,
                  count |-> Len(rows),
                  totalValue |-> SumOf([ k \in 1..Len(rows) |->
                                           rows[k].estimatedValue ]),
                  \* condSet.add(String(item.condition).toLowerCase())
                  conditions |-> { ToLowerCase(rows[k].condition) :
                                     k \in 1..Len(rows) } ]
        items == [ k \in 1..Len(keys) |-> itemOf(keys[k]) ]
        byValue(xs) == SortedByValueDesc([ k \in 1..Len(xs) |->
                                             [ rank |-> xs[k].totalValue,
                                               val |-> xs[k] ] ])
        repeatedAll == byValue(SelectSeq(items, LAMBDA it : it.count >= 2))
        repeated == Slice0(repeatedAll, RepeatedShown)
        portion ==
            [ k \in 1..Len(repeated) |->
                [ Suggestion("portion_adjustment",
                             IF repeated[k].count = 3
                                  \/ NumCmp(repeated[k].totalValue,
                                            FromInt(HighValue)) >= 0
                             THEN "high" ELSE "medium") EXCEPT
                    !.subject = repeated[k].name,
                    !.frequency = repeated[k].count,
                    !.total_value = Cents(repeated[k].totalValue) ] ]
        spoiledKeys ==
            SelectSeq(keys, LAMBDA key :
                itemOf(key).conditions
                  \cap {"spoiled", "expired", "stale"} # {})
        spoiledAll == Slice0(spoiledKeys, SpoiledShown)
        storage ==
            [ k \in 1..Len(spoiledAll) |->
                [ Suggestion("best_practice", "medium") EXCEPT
                    !.subject = spoiledAll[k] ] ]
        top == byValue(items)
        fallback ==
            IF Len(portion) + Len(storage) = 0 /\ Len(top) > 0
            THEN << [ Suggestion("trend_alert", "low") EXCEPT
                        !.subject = top[1].name,
                        !.total_value = Cents(top[1].totalValue) ] >>
            ELSE <<>>
        \* the amount shown is (totalRecentValue * 0.2).toFixed(2)
        nudge ==
            IF NumCmp(totalRecentValue, FromInt(NudgeValue)) >= 0
            THEN << [ Suggestion("best_practice", "low") EXCEPT
                        !.total_value =
                           Cents(NumMul(totalRecentValue, FromCents(20))) ] >>
            ELSE <<>>
    IN  portion \o storage \o fallback \o nudge

\* the query api.js builds for getWasteHistory({ limit: 3 }): ?limit=3
RecentQuery == [ limit |-> << "3" >>, startDate |-> <<>>, endDate |-> <<>> ]

\* variant: the suggestions are worked out of whatever the list returned
ComputedSuggestions_anyEntries(d) ==
    GenerateSuggestionsFromEntries(GetWasteHistory(d, RecentQuery))

\* loadRecent: what the view keeps as its computed suggestions
ComputedSuggestions(d) ==
    LET entries == GetWasteHistory(d, RecentQuery)
    IN  IF Len(entries) >= RecentLimit
        THEN GenerateSuggestionsFromEntries(entries)
        ELSE <<>>

\* the Suggestions view loads: GET /api/waste-history?limit=3, whose handler
\* awaits the list it read and sends it in a later Respond; the body kept is
\* what the view computes out of that list once it has it
LoadRecent ==
    /\ RoomToAwait
    /\ Await([ Answer("recent") EXCEPT
                 !.status = 200,
                 !.query = RecentQuery,
                 !.body = ComputedSuggestions(data) ])
    /\ UNCHANGED <<data, disk, now, req, last, issuedE, issuedI, cleared, failures>>

(***************************************************************************)
(* The view on stores made by uploads of different images at five times,   *)
(* two of them the same, and read again after a deletion.                  *)
(***************************************************************************)
RecentTimes == << DayTicks, DayTicks + 1, DayTicks + 1, 2 * DayTicks, 2 * DayTicks + 1 >>

RecentResults ==
    { <<>>,
      << VItem("apple", 120) >>,
      << VItem("Apple", 600), VItem("bread", 33) >> }

RecentPlans ==
    { PlanOf(RecentTimes, << "h1", "h2", "h3", "h4", "h5" >>, pick) :
        pick \in [ 1..Len(RecentTimes) ->
                     {<<>>} \cup { << r >> : r \in RecentResults } ] }

InitRecent ==
    \E plan \in RecentPlans : InitWith(BuildStore(plan), 3 * DayTicks)

\* one view loading at a time, entries being deleted meanwhile
NextRecent ==
    \/ outbox = <<>> /\ LoadRecent
    \/ Respond
    \/ \E entryId \in DeleteArgs : DeleteEntry(entryId, "ok")

SpecRecent == InitRecent /\ [][NextRecent]_vars

\* the entries of d none of which has three entries in front of it, an entry
\* being in front of another when it is newer, or as new and stored earlier
NewestThree(d) ==
    LET inFront(j, k) ==
            \/ d.entries[j].timestamp > d.entries[k].timestamp
            \/ d.entries[j].timestamp = d.entries[k].timestamp /\ j < k
        rankOf(k) == Cardinality({ j \in 1..Len(d.entries) : inFront(j, k) })
        place(p) == CHOOSE k \in 1..Len(d.entries) : rankOf(k) = p - 1
        n == IF Len(d.entries) < 3 THEN Len(d.entries) ELSE 3
    IN  [ p \in 1..n |->
            [ entry |-> d.entries[place(p)],
              items |-> ItemsOfEntry(d, d.entries[place(p)].id) ] ]

\* C24: the suggestions the view computes are those of exactly the three
\* newest entries, by timestamp, of the store its list was read from, and
\* there are none whenever that store holds fewer than three entries
C24_RecentFromNewestThree ==
    [][ Readies("recent") =>
        /\ Len(data.entries) < 3 => Readied.body = <<>>
        /\ Len(data.entries) >= 3 =>
              /\ Readied.body = GenerateSuggestionsFromEntries(NewestThree(data))
              /\ \A k \in 1..Len(Readied.body) :
                    Readied.body[k].type = "portion_adjustment" =>
                       Readied.body[k].frequency =
                          Cardinality({ i \in 1..Len(data.items) :
                              /\ ToLowerCase(data.items[i].name)
                                   = ToLowerCase(Readied.body[k].subject)
                              /\ \E p \in 1..3 :
                                    NewestThree(data)[p].entry.id
                                      = data.items[i].waste_entry_id }) ]_vars

\* four entries, the oldest of which holds an item the three newest repeat, and
\* the view has counted the item in the three newest only
C24_Witness ==
    /\ last.op = "recent"
    /\ Len(data.entries) >= 4
    /\ \E k \in 1..Len(last.body) :
          /\ last.body[k].type = "portion_adjustment"
          /\ last.body[k].frequency
               < Cardinality({ i \in 1..Len(data.items) :
                     ToLowerCase(data.items[i].name)
                       = ToLowerCase(last.body[k].subject) })

\* two entries with items, and the view has no suggestion
C24_WitnessFewEntries ==
    /\ last.op = "recent"
    /\ Len(data.entries) = 2
    /\ Len(data.items) >= 2
    /\ last.body = <<>>

\* the items of the earlier entry whose name is that of item it, ignoring case
SameNamed(prevItems, it) ==
    { j \in 1..Len(prevItems) :
         ToLowerCase(prevItems[j].name) = ToLowerCase(it.name) }

\* C25: when the earlier entry found for the image has items, every fresh item
\* whose name is, ignoring case, that of an earlier item is stored with that
\* earlier item's value, every other fresh item with its own value, and the
\* number, the order and the other fields of the fresh items are kept
C25_AlignmentByName ==
    [][ \A fresh \in PricedResults :
          ( /\ AnalyzeComplete("r1", fresh, "ok")
            /\ req["r1"].previous # <<>>
            /\ Len(req["r1"].previous[1].items) > 0 ) =>
             LET prevItems == req["r1"].previous[1].items
                 stored == ItemsOfEntry(data', Readied.entryId)
             IN  /\ Len(stored) = Len(fresh)
                 /\ \A k \in 1..Len(fresh) :
                       /\ stored[k].name = fresh[k].name
                       /\ stored[k].category = fresh[k].category
                       /\ stored[k].condition = fresh[k].condition
                       /\ SameNamed(prevItems, fresh[k]) = {} =>
                             stored[k].estimatedValue = fresh[k].estimatedValue
                       /\ SameNamed(prevItems, fresh[k]) # {} =>
                             \E j \in SameNamed(prevItems, fresh[k]) :
                                stored[k].estimatedValue = prevItems[j].estimatedValue
       ]_vars

\* after an upload whose apple was worth 7.03, the same image gave "Apple" at
\* 4.00 and bread at 3.05: stored are Apple at 7.03 and bread at 3.05
C25_Witness ==
    /\ last.op = "log"
    /\ last.prev # <<>>
    /\ Len(last.prev[1].items) = 1
    /\ last.prev[1].items[1].name = "apple"
    /\ last.prev[1].items[1].estimatedValue = FromCents(703)
    /\ LET stored == ItemsOfEntry(data, last.entryId)
       IN  /\ Len(stored) = 2
           /\ stored[1].name = "Apple" /\ stored[1].estimatedValue = FromCents(703)
           /\ stored[2].name = "bread" /\ stored[2].estimatedValue = FromCents(305)

\* C26: when the earlier entry found for the image has a total that is not
\* above zero, the total resolved is the sum of the items as stored after the
\* alignment, rounded to the nearest ten cents, and the new entry carries no
\* consistency note; when the earlier entry has no items, the fresh items are
\* stored untouched and the total resolved is that of an upload for which no
\* earlier entry was found
C26_NonPositivePriorTotal ==
    [][ \A fresh \in PricedResults :
          ( AnalyzeComplete("r1", fresh, "ok") /\ req["r1"].previous # <<>> ) =>
             LET prev == req["r1"].previous[1]
                 stored == ItemsOfEntry(data', Readied.entryId)
                 made == data'.entries[Len(data'.entries)]
             IN  /\ ~Positive(prev.entry.total_estimated_value) =>
                       /\ \E dime \in NearestDimes(SumCents(stored)) :
                             Readied.analysisTotal = FromCents(dime)
                       /\ made.id = Readied.entryId
                       /\ made.consistency_note = <<>>
                 /\ Len(prev.items) = 0 =>
                       /\ Len(stored) = Len(fresh)
                       /\ \A k \in 1..Len(fresh) :
                             /\ stored[k].name = fresh[k].name
                             /\ stored[k].estimatedValue = fresh[k].estimatedValue
                       /\ \E dime \in NearestDimes(SumCents(fresh)) :
                             Readied.analysisTotal = FromCents(dime)
                       /\ Readied.analysisTotal
                            = Reconcile(<<>>, fresh).totalEstimatedValue
       ]_vars

\* after an upload whose one item, bread, was worth nothing, the same image
\* gave bread at 0.04 and rice at 0.95: bread is stored at nothing, rice at
\* 0.95, the total resolved is 1.00 and there is no note
C26_Witness ==
    /\ last.op = "log"
    /\ last.prev # <<>>
    /\ Len(last.prev[1].items) = 1
    /\ last.prev[1].entry.total_estimated_value = ZeroNum
    /\ last.analysisTotal = FromCents(100)
    /\ NewestEntry.id = last.entryId
    /\ NewestEntry.consistency_note = <<>>
    /\ LET stored == ItemsOfEntry(data, last.entryId)
       IN  /\ Len(stored) = 2
           /\ stored[1].name = "bread" /\ stored[1].estimatedValue = ZeroNum
           /\ stored[2].name = "rice" /\ stored[2].estimatedValue = FromCents(95)

\* after an upload in which nothing was found, the same image gave an apple
\* at 7.06: it is stored at 7.06 and the total resolved is 7.10
C26_WitnessPriorWithoutItems ==
    /\ last.op = "log"
    /\ last.prev # <<>>
    /\ last.prev[1].items = <<>>
    /\ last.analysisTotal = FromCents(710)
    /\ LET stored == ItemsOfEntry(data, last.entryId)
       IN  Len(stored) = 1 /\ stored[1].estimatedValue = FromCents(706)

\* C27: an upload whose vision call fails on invalid input (an upstream 400
\* or INVALID_ARGUMENT) is answered with status 400, not with the status 500
\* of a failure the handler cannot classify
C27_InvalidInputAnswered400 ==
    [][ \A r \in Reqs :
          AnalyzeFail(r, "InvalidInput") =>
             /\ last'.status = 400
             /\ last'.status
                  # StatusCodeFor(RethrownMessage(RaisedMessage("UpstreamUnavailable")))
      ]_vars

\* the stored entries of image h none of which is older than another of them
LatestOfHash(d, h) ==
    { k \in 1..Len(d.entries) :
         /\ d.entries[k].image_hash = h
         /\ \A j \in 1..Len(d.entries) :
               d.entries[j].image_hash = h =>
                  d.entries[j].timestamp <= d.entries[k].timestamp }

\* C28: however uploads overlap, an upload that is stored while the store
\* holds an entry of the same image is stored as a duplicate: of the most
\* recent stored entry of that image, and with the values of that entry's
\* items for the items of the same name
C28_StoredAsDuplicateOfLatest ==
    [][ \A r \in Reqs, fresh \in VisionResults :
          ( AnalyzeComplete(r, fresh, "ok") /\ LatestOfHash(data, req[r].hash) # {} ) =>
             LET made == data'.entries[Len(data'.entries)]
                 stored == ItemsOfEntry(data', made.id)
             IN  \E k \in LatestOfHash(data, req[r].hash) :
                    /\ made.duplicate_of_entry_id = data.entries[k].id
                    /\ LET prevItems == ItemsOfEntry(data, data.entries[k].id)
                       IN  \A i \in 1..Len(stored) :
                              SameNamed(prevItems, stored[i]) # {} =>
                                 \E j \in SameNamed(prevItems, stored[i]) :
                                    stored[i].estimatedValue
                                      = prevItems[j].estimatedValue
      ]_vars

\* C29: however uploads, deletions and clearAll interleave, an entry stored
\* with a duplicate_of_entry_id names an entry with a smaller id than its own
\* that is, when the new entry is stored, in the store with the same image
\* hash
C29_DuplicateNamesStoredEntry ==
    [][ \A r \in Reqs, fresh \in VisionResults :
          AnalyzeComplete(r, fresh, "ok") =>
             LET made == data'.entries[Len(data'.entries)]
             IN  made.duplicate_of_entry_id # NULL =>
                    /\ made.duplicate_of_entry_id < made.id
                    /\ \E k \in 1..Len(data.entries) :
                          /\ data.entries[k].id = made.duplicate_of_entry_id
                          /\ data.entries[k].image_hash = made.image_hash
      ]_vars

\* C30: the suggestions hold no trend_alert while the daily statistics have
\* three buckets or fewer, the mean of the three most recent buckets being
\* then the mean of all of them: an alert takes entries on at least four
\* different dates within the thirty days
C30_NoAlertUpToThreeBuckets ==
    last.op = "suggestions" =>
       LET alert == \E k \in 1..Len(last.body) : last.body[k].type = "trend_alert"
       IN  /\ Len(DailyStats(data, last.query.at, last.query.shift)) <= 3 => ~alert
           /\ alert => Cardinality(WindowDates(data, now)) >= 4

====
